---------------------------- MODULE Spec2Model ----------------------------
(***************************************************************************)
(* A model of the taptap decoding pipeline: the gateway link receiver      *)
(* (framing FSM, escaping, CRC), the gateway transport receiver (receive   *)
(* response decoding) and the observer (enumeration arbiter, node-table    *)
(* builder).  Each layer is a synchronous state machine fed by its caller. *)
(***************************************************************************)
EXTENDS Integers, Sequences, FiniteSets, TLC

VARIABLES
    \* gateway::link::Receiver<Vec<Frame>>
    state, buffer, counters, sink,
    \* the caller of the link receiver: bytes of the current slice not yet
    \* pushed, and the number of extend_from_slice calls made
    pending, calls,
    \* link history: what the byte stream has done so far
    fed_frame, terminators, noise_entries, overlong_frames, table_state, table_len,
    \* the frames of the encoded slices fed since the last slice that was not
    \* an encoded frame
    fed_run,
    \* gateway::transport::Receiver and the outcome of its last call
    rx_packet_numbers, command_sequence_numbers, commands_awaiting_response,
    transport_counters, notifications, overflow_checks, panicked,
    \* transport history: the last frame given to it and the receiver before it
    last_frame, before_frame,
    \* observer::Observer
    persistent_state, enumeration_state, node_table_builders,
    \* observer history: the last callback and the observer's identities,
    \* versions and enumeration state before it; the pages pushed
    last_call, before_call, pages, committed, chain_next, chain_done,
    \* the node tables before the last callback, and the entries of the page
    \* when it was node_table_page
    before_node_tables, last_page,
    \* when the last callback was node_table_page: its gateway, its start
    \* address and the gateway's builder before it
    before_page,
    \* when the last callback was gateway_identity_observed: its gateway and
    \* its address
    last_identity,
    \* observer::slot_clock::SlotClock, and its history: the last observation
    \* given to it, the observation that anchors the index of that one, whether
    \* the times given never went backwards, and the number of observations
    slot_clock, observation, anchor, monotone, observations,
    \* the last call on a slot clock or on the observer's clocks, with the
    \* state before it
    clock_call,
    \* Observer: the capture times and the slot clocks of the gateways, the
    \* events printed, the system time, and the gateways captured since they
    \* were last observed
    captured_slot_counters, slot_clocks, events, now, capture_pending,
    \* a codec at work: which one, the value given to it, the encoding of the
    \* value, and the decoding of the encoding
    codec, given, encoded, decoded

link_vars == <<state, buffer, counters, sink, pending, calls, fed_frame, terminators,
               noise_entries, overlong_frames, table_state, table_len, fed_run>>
transport_vars == <<rx_packet_numbers, command_sequence_numbers,
                    commands_awaiting_response, transport_counters, notifications,
                    overflow_checks, panicked, last_frame, before_frame>>
observer_vars == <<persistent_state, enumeration_state, node_table_builders,
                   last_call, before_call, pages, committed, chain_next, chain_done,
                   before_node_tables, last_page, before_page, last_identity>>
observer_clock_vars == <<captured_slot_counters, slot_clocks, events, now, capture_pending>>
clock_vars == <<slot_clock, observation, anchor, monotone, observations, clock_call,
                observer_clock_vars>>
codec_vars == <<codec, given, encoded, decoded>>
vars == <<link_vars, transport_vars, observer_vars, clock_vars, codec_vars>>

\* Option: None, or Some(x)
None == <<>>
Some(x) == <<x>>

---------------------------------------------------------------------------
(* Bytes and words                                                         *)

Byte == 0..255

RECURSIVE Xor(_, _)
Xor(a, b) ==
    IF a = 0 THEN b
    ELSE IF b = 0 THEN a
    ELSE ((a + b) % 2) + 2 * Xor(a \div 2, b \div 2)

\* u16::to_be_bytes / u16::from_be_bytes / to_le_bytes / from_le_bytes
to_be_bytes(v) == <<v \div 256, v % 256>>
from_be_bytes(hi, lo) == hi * 256 + lo
to_le_bytes(v) == <<v % 256, v \div 256>>
from_le_bytes(lo, hi) == hi * 256 + lo

Zeros(n) == [i \in 1..n |-> 0]

---------------------------------------------------------------------------
(* gateway::link::crc: CRC-16, reflected, polynomial 0x8408, initial value *)
(* 0x8408, no final xor.  The parameters reproduce the frames of           *)
(* link.rs tests::frame_encoding and receive.rs tests::happy_path.         *)

CRC_POLY == 33800
CRC_INIT == 33800

RECURSIVE CrcShift(_, _)
CrcShift(c, n) ==
    IF n = 0 THEN c
    ELSE CrcShift(IF c % 2 = 1 THEN Xor(c \div 2, CRC_POLY) ELSE c \div 2, n - 1)

CrcTable == [i \in Byte |-> CrcShift(i, 8)]

\* one byte of the table-driven update
CrcUpdate(c, byte) == Xor(c \div 256, CrcTable[Xor(c % 256, byte)])

\* the update over bytes[lo..hi], left to right (halved, and the left half
\* evaluated before the right one is entered, to keep the evaluation shallow)
RECURSIVE CrcRange(_, _, _, _)
CrcRange(c, bytes, lo, hi) ==
    IF lo > hi THEN c
    ELSE IF lo = hi THEN CrcUpdate(c, bytes[lo])
    ELSE LET mid == (lo + hi) \div 2
             left == CrcRange(c, bytes, lo, mid)
         IN  IF left >= 0 THEN CrcRange(left, bytes, mid + 1, hi) ELSE left

crc(bytes) == CrcRange(CRC_INIT, bytes, 1, Len(bytes))

---------------------------------------------------------------------------
(* gateway::link::address                                                  *)

DIRECTION_BIT == 32768
GATEWAY_ID_MASK == 32767

From(id) == [dir |-> "From", id |-> id]
To(id) == [dir |-> "To", id |-> id]

\* impl From<u16> for Address
AddressFromU16(value) ==
    IF (value \div DIRECTION_BIT) % 2 = 0
    THEN To(value % (GATEWAY_ID_MASK + 1))
    ELSE From(value % (GATEWAY_ID_MASK + 1))

\* impl From<Address> for u16
AddressToU16(address) ==
    IF address.dir = "From" THEN address.id + DIRECTION_BIT ELSE address.id

\* impl From<[u8; 2]> for Address, impl From<Address> for [u8; 2]
AddressFromBytes(b0, b1) == AddressFromU16(from_be_bytes(b0, b1))
AddressToBytes(address) == to_be_bytes(AddressToU16(address))

---------------------------------------------------------------------------
(* gateway::link::escaping                                                 *)

\* escape with the codes of 0x24 and 0x23 exchanged
EscapedSwapped(byte) ==
    CASE byte = 126 -> Some(0)
      [] byte = 36 -> Some(2)
      [] byte = 35 -> Some(1)
      [] byte = 37 -> Some(3)
      [] byte = 164 -> Some(4)
      [] byte = 163 -> Some(5)
      [] byte = 165 -> Some(6)
      [] OTHER -> None

\* the match of escape(): the code following 0x7E for a byte that needs
\* escaping, None for a byte emitted as it is
\* escape with the codes of 0x24 and 0x23 exchanged
EscapedExchanged(byte) ==
    CASE byte = 126 -> Some(0)
      [] byte = 36 -> Some(2)
      [] byte = 35 -> Some(1)
      [] byte = 37 -> Some(3)
      [] byte = 164 -> Some(4)
      [] byte = 163 -> Some(5)
      [] byte = 165 -> Some(6)
      [] OTHER -> None

escaped(byte) ==
    CASE byte = 126 -> Some(0)
      [] byte = 36 -> Some(1)
      [] byte = 35 -> Some(2)
      [] byte = 37 -> Some(3)
      [] byte = 164 -> Some(4)
      [] byte = 163 -> Some(5)
      [] byte = 165 -> Some(6)
      [] OTHER -> None

\* escape over bytes[lo..hi] (halved, to keep the evaluation shallow)
RECURSIVE EscapeRange(_, _, _)
EscapeRange(bytes, lo, hi) ==
    IF lo > hi THEN <<>>
    ELSE IF lo = hi
    THEN IF escaped(bytes[lo]) = None THEN <<bytes[lo]>> ELSE <<126>> \o escaped(bytes[lo])
    ELSE LET mid == (lo + hi) \div 2
         IN  EscapeRange(bytes, lo, mid) \o EscapeRange(bytes, mid + 1, hi)

escape(bytes) == EscapeRange(bytes, 1, Len(bytes))

\* Ok(byte) is Some(byte), Err(InvalidEscapeSequence) is None
unescaped_byte(byte_after_0x7e) ==
    CASE byte_after_0x7e = 0 -> Some(126)
      [] byte_after_0x7e = 1 -> Some(36)
      [] byte_after_0x7e = 2 -> Some(35)
      [] byte_after_0x7e = 3 -> Some(37)
      [] byte_after_0x7e = 4 -> Some(164)
      [] byte_after_0x7e = 5 -> Some(163)
      [] byte_after_0x7e = 6 -> Some(165)
      [] OTHER -> None

---------------------------------------------------------------------------
(* gateway::link::Frame                                                    *)

Frame(address, frame_type, payload) ==
    [address |-> address, frame_type |-> frame_type, payload |-> payload]

\* Frame::encode
encode(frame) ==
    LET start == IF frame.address.dir = "From" THEN <<255, 126, 7>>
                 ELSE <<0, 255, 255, 126, 7>>
        end == <<126, 8>>
        body == AddressToBytes(frame.address) \o to_be_bytes(frame.frame_type)
                \o frame.payload
    IN  start \o escape(body \o to_le_bytes(crc(body))) \o end

---------------------------------------------------------------------------
(* gateway::link::receive::Receiver                                        *)

MAX_FRAME_SIZE == 256

States == {"Idle", "Noise", "StartOfFrame", "Frame", "FrameEscape", "Giant", "GiantEscape"}

\* Counters::default()
NoCounters == [frames |-> 0, runts |-> 0, giants |-> 0, checksums |-> 0, noise |-> 0]

Bump(c, field) == [c EXCEPT ![field] = @ + 1]

\* Receiver::new
NewReceiver == [state |-> "Idle", counters |-> NoCounters, buffer |-> <<>>, sink |-> <<>>]

\* self.buffer.len() <= Self::MAX_FRAME_SIZE
HasRoomInclusive(buf) == Len(buf) <= MAX_FRAME_SIZE

\* self.buffer.len() < Self::MAX_FRAME_SIZE
HasRoom(buf) == Len(buf) < MAX_FRAME_SIZE

\* parse_frame_from_buffer returning on a short buffer without counting it
ParseFrameUncountedRunt(r) ==
    LET n == Len(r.buffer)
        body == SubSeq(r.buffer, 1, n - 2)
        expected_crc == from_le_bytes(r.buffer[n - 1], r.buffer[n])
    IN  IF n < 6 THEN r
        ELSE IF expected_crc # crc(body) THEN [r EXCEPT !.counters = Bump(@, "checksums")]
        ELSE [r EXCEPT !.counters = Bump(@, "frames"),
                       !.sink = Append(@, Frame(AddressFromBytes(body[1], body[2]),
                                                from_be_bytes(body[3], body[4]),
                                                SubSeq(body, 5, n - 2)))]

\* parse_frame_from_buffer giving the sink the frame whose CRC does not match
ParseFrameDeliveringBadCrc(r) ==
    LET n == Len(r.buffer)
        body == SubSeq(r.buffer, 1, n - 2)
        expected_crc == from_le_bytes(r.buffer[n - 1], r.buffer[n])
        delivered == Append(r.sink, Frame(AddressFromBytes(body[1], body[2]),
                                          from_be_bytes(body[3], body[4]),
                                          SubSeq(body, 5, n - 2)))
    IN  IF n < 6 THEN [r EXCEPT !.counters = Bump(@, "runts")]
        ELSE IF expected_crc # crc(body)
        THEN [r EXCEPT !.counters = Bump(@, "checksums"), !.sink = delivered]
        ELSE [r EXCEPT !.counters = Bump(@, "frames"), !.sink = delivered]

\* Receiver::parse_frame_from_buffer
parse_frame_from_buffer(r) ==
    LET n == Len(r.buffer)
        body == SubSeq(r.buffer, 1, n - 2)
        expected_crc == from_le_bytes(r.buffer[n - 1], r.buffer[n])
    IN  IF n < 6 THEN [r EXCEPT !.counters = Bump(@, "runts")]
        ELSE IF expected_crc # crc(body) THEN [r EXCEPT !.counters = Bump(@, "checksums")]
        ELSE [r EXCEPT !.counters = Bump(@, "frames"),
                       !.sink = Append(@, Frame(AddressFromBytes(body[1], body[2]),
                                                from_be_bytes(body[3], body[4]),
                                                SubSeq(body, 5, n - 2)))]

\* the first match of push_u8: the arm of the current state, giving the next
\* state and what the arm did to the buffer, the counters and the sink
NextState(r, byte) ==
    CASE r.state = "Idle" ->
            [r EXCEPT !.state = IF byte \in {0, 255} THEN "Idle"
                                ELSE IF byte = 126 THEN "StartOfFrame"
                                ELSE "Noise"]
      [] r.state = "Noise" ->
            [r EXCEPT !.state = IF byte \in {0, 255} THEN "Idle"
                                ELSE IF byte = 126 THEN "StartOfFrame"
                                ELSE "Noise"]
      [] r.state = "StartOfFrame" ->
            [r EXCEPT !.state = IF byte = 7 THEN "Frame" ELSE "Noise"]
      [] r.state = "Frame" ->
            IF byte = 126 THEN [r EXCEPT !.state = "FrameEscape"]
            ELSE IF HasRoom(r.buffer)
            THEN [r EXCEPT !.buffer = Append(@, byte), !.state = "Frame"]
            ELSE [r EXCEPT !.state = "Giant"]
      [] r.state = "FrameEscape" ->
            IF byte = 8
            THEN [parse_frame_from_buffer(r) EXCEPT !.buffer = <<>>, !.state = "Idle"]
            ELSE IF unescaped_byte(byte) # None
            THEN IF HasRoom(r.buffer)
                 THEN [r EXCEPT !.buffer = @ \o unescaped_byte(byte),
                                !.state = "Frame"]
                 ELSE [r EXCEPT !.buffer = <<>>, !.state = "GiantEscape"]
            ELSE [r EXCEPT !.buffer = <<>>, !.state = "Noise"]
      [] r.state = "Giant" ->
            [r EXCEPT !.state = IF byte = 126 THEN "GiantEscape" ELSE "Giant"]
      [] r.state = "GiantEscape" ->
            [r EXCEPT !.state = IF byte = 7 THEN "Frame"
                                ELSE IF byte = 8 THEN "Idle"
                                ELSE "Giant"]

\* State::Noise, whatever self.state is
NoiseEnteredAlways(old_state, next_state) == next_state = "Noise"

\* State::Noise if self.state != State::Noise
NoiseEntered(old_state, next_state) ==
    next_state = "Noise" /\ old_state # "Noise"

\* State::Giant if self.state != State::Giant && self.state != State::GiantEscape
GiantEntered(old_state, next_state) ==
    next_state = "Giant" /\ old_state # "Giant" /\ old_state # "GiantEscape"

\* Receiver::push_u8 leaving the buffer as it was when noise begins
PushU8KeepingNoise(r, byte) ==
    LET n == NextState(r, byte)
    IN  IF NoiseEntered(r.state, n.state)
        THEN [n EXCEPT !.counters = Bump(@, "noise"), !.buffer = r.buffer]
        ELSE IF GiantEntered(r.state, n.state)
        THEN [n EXCEPT !.buffer = <<>>, !.counters = Bump(@, "giants")]
        ELSE n

\* Receiver::push_u8 leaving the buffer as it is when a giant begins
PushU8KeepingGiant(r, byte) ==
    LET n == NextState(r, byte)
    IN  IF NoiseEntered(r.state, n.state)
        THEN [n EXCEPT !.counters = Bump(@, "noise")]
        ELSE IF GiantEntered(r.state, n.state)
        THEN [n EXCEPT !.counters = Bump(@, "giants")]
        ELSE n

\* Receiver::push_u8
push_u8(r, byte) ==
    LET n == NextState(r, byte)
    IN  IF NoiseEntered(r.state, n.state)
        THEN [n EXCEPT !.counters = Bump(@, "noise")]
        ELSE IF GiantEntered(r.state, n.state)
        THEN [n EXCEPT !.buffer = <<>>, !.counters = Bump(@, "giants")]
        ELSE n

---------------------------------------------------------------------------
(* The byte streams fed to the link receiver                               *)

\* number of extend_from_slice calls in a run
MaxCalls == 5

\* single bytes: preamble, frame marker, start and end codes, an escape code
\* (0x06, which is noise between frames) -- every row of the FSM has a byte
Alphabet == {0, 255, 126, 7, 8, 6}

\* a start of frame followed by a body that fills the buffer, or all of it
\* but one byte
FillerSlices == {<<126, 7>> \o Zeros(n) : n \in {MAX_FRAME_SIZE - 1, MAX_FRAME_SIZE}}

\* the frame of link.rs tests::frame_encoding
SampleFrame == Frame(From(4609), 329, <<0, 255, 124, 219, 194>>)

\* a frame with the longest payload the buffer admits (256 - 2 - 2 - 2)
LongestFrame == Frame(To(4609), 328, Zeros(MAX_FRAME_SIZE - 6))

LinkFrames == {SampleFrame, LongestFrame}

\* frames for the round trip: both directions, the extreme ids, types and
\* payloads holding every byte that needs escaping
RoundTripPayloads ==
    { <<>>, <<0, 255, 124, 219, 194>>, <<126>>, <<35, 36, 37>>, <<163, 164, 165>>,
      <<126, 8>>, <<7, 126, 126, 8, 0>>, Zeros(MAX_FRAME_SIZE - 6),
      [i \in 1..(MAX_FRAME_SIZE - 6) |-> 126],
      [i \in 1..(MAX_FRAME_SIZE - 6) |-> IF i % 2 = 0 THEN 36 ELSE 255] }

RoundTripFrames ==
    { Frame(a, t, p) : a \in {To(0), To(4609), To(32767), From(0), From(4609), From(32767)},
                       t \in {0, 329, 32382, 9252, 65535},
                       p \in RoundTripPayloads }

---------------------------------------------------------------------------
(* The transition table of the link receiver as the specification gives it *)
(* (section 4.1), run beside the receiver on the same bytes                *)

TableStep(s, len, byte) ==
    CASE s \in {"Idle", "Noise"} ->
            [state |-> IF byte \in {0, 255} THEN "Idle"
                       ELSE IF byte = 126 THEN "StartOfFrame" ELSE "Noise",
             len |-> 0]
      [] s = "StartOfFrame" ->
            [state |-> IF byte = 7 THEN "Frame" ELSE "Noise", len |-> 0]
      [] s = "Frame" ->
            IF byte = 126 THEN [state |-> "FrameEscape", len |-> len]
            ELSE IF len < MAX_FRAME_SIZE THEN [state |-> "Frame", len |-> len + 1]
            ELSE [state |-> "Giant", len |-> 0]
      [] s = "FrameEscape" ->
            IF byte = 8 THEN [state |-> "Idle", len |-> 0]
            ELSE IF byte \in 0..6
            THEN IF len < MAX_FRAME_SIZE THEN [state |-> "Frame", len |-> len + 1]
                 ELSE [state |-> "Giant", len |-> 0]
            ELSE [state |-> "Noise", len |-> 0]
      [] s = "Giant" ->
            [state |-> IF byte = 126 THEN "GiantEscape" ELSE "Giant", len |-> 0]
      [] s = "GiantEscape" ->
            [state |-> IF byte = 7 THEN "Frame"
                       ELSE IF byte = 8 THEN "Idle" ELSE "Giant",
             len |-> 0]

---------------------------------------------------------------------------
(* Link actions                                                            *)

LinkInit ==
    /\ state = NewReceiver.state
    /\ buffer = NewReceiver.buffer
    /\ counters = NewReceiver.counters
    /\ sink = NewReceiver.sink
    /\ pending = <<>>
    /\ calls = 0
    /\ fed_frame = None
    /\ terminators = [frame |-> 0, giant |-> 0]
    /\ noise_entries = 0
    /\ overlong_frames = 0
    /\ table_state = "Idle"
    /\ table_len = 0
    /\ fed_run = <<>>

Rx == [state |-> state, counters |-> counters, buffer |-> buffer, sink |-> sink]

\* one iteration of the loop of extend_from_slice: push_u8(byte), and what
\* the byte was for the history of the stream
Push(byte) ==
    LET r == push_u8(Rx, byte)
        t == TableStep(table_state, table_len, byte)
    IN  /\ state' = r.state
        /\ buffer' = r.buffer
        /\ counters' = r.counters
        /\ sink' = r.sink
        /\ terminators' =
              IF byte = 8 /\ state = "FrameEscape" THEN [terminators EXCEPT !.frame = @ + 1]
              ELSE IF byte = 8 /\ state = "GiantEscape"
              THEN [terminators EXCEPT !.giant = @ + 1]
              ELSE terminators
        /\ noise_entries' =
              IF r.state = "Noise" /\ state # "Noise" THEN noise_entries + 1
              ELSE noise_entries
        /\ overlong_frames' =
              IF /\ Len(buffer) >= MAX_FRAME_SIZE
                 /\ \/ state = "Frame" /\ byte # 126
                    \/ state = "FrameEscape" /\ byte \in 0..6
              THEN overlong_frames + 1
              ELSE overlong_frames
        /\ table_state' = t.state
        /\ table_len' = t.len

\* Receiver::extend_from_slice, entered with a slice: the first iteration
ExtendFromSlice(slice) ==
    /\ pending = <<>>
    /\ calls < MaxCalls
    /\ calls' = calls + 1
    /\ fed_frame' = None
    /\ fed_run' = <<>>
    /\ Push(Head(slice))
    /\ pending' = Tail(slice)
    /\ UNCHANGED <<transport_vars, observer_vars, clock_vars, codec_vars>>

\* Receiver::extend_from_slice(Frame::encode(frame))
ExtendFromEncoded(frame) ==
    /\ pending = <<>>
    /\ calls < MaxCalls
    /\ calls' = calls + 1
    /\ fed_frame' = IF calls = 0 THEN Some(frame) ELSE None
    /\ fed_run' = Append(fed_run, frame)
    /\ Push(Head(encode(frame)))
    /\ pending' = Tail(encode(frame))
    /\ UNCHANGED <<transport_vars, observer_vars, clock_vars, codec_vars>>

\* Receiver::extend_from_slice, the following iterations
PushNext ==
    /\ pending # <<>>
    /\ Push(Head(pending))
    /\ pending' = Tail(pending)
    /\ UNCHANGED <<calls, fed_frame, fed_run, transport_vars, observer_vars, clock_vars,
                   codec_vars>>

---------------------------------------------------------------------------
(* gateway::transport: the receive response payload                        *)

RECEIVE_REQUEST == 328
RECEIVE_RESPONSE == 329
COMMAND_REQUEST == 2831
COMMAND_RESPONSE == 2832
PING_REQUEST == 2816
PING_RESPONSE == 2817
ENUMERATION_START_REQUEST == 20
ENUMERATION_START_RESPONSE == 21
ENUMERATION_REQUEST == 56
ENUMERATION_RESPONSE == 57
ASSIGN_GATEWAY_ID_REQUEST == 60
ASSIGN_GATEWAY_ID_RESPONSE == 61
IDENTIFY_REQUEST == 58
IDENTIFY_RESPONSE == 59
VERSION_REQUEST == 10
VERSION_RESPONSE == 11
ENUMERATION_END_REQUEST == 3586
ENUMERATION_END_RESPONSE == 6

\* status_type & mask != 0, for a mask of one bit
BitSet(status_type, mask) == (status_type \div mask) % 2 = 1

Drop(bytes, n) == SubSeq(bytes, n + 1, Len(bytes))

\* interpret_packet_number_lo: old_hi + 1 is a u8 addition, which aborts when
\* overflow checks are compiled in and wraps when they are not; None is the
\* abort, Some(n) the packet number
interpret_packet_number_lo(new_lo, old, checks) ==
    LET old_hi == old \div 256
        old_lo == old % 256
    IN  IF new_lo >= old_lo THEN Some(from_be_bytes(old_hi, new_lo))
        ELSE IF old_hi + 1 > 255 /\ checks THEN None
        ELSE Some(from_be_bytes((old_hi + 1) % 256, new_lo))

\* ReceiveResponse::read_from_bytes taking one byte for every optional field
TakeFieldOneByte(p, present, n, name) ==
    IF p.tag # "Run" \/ ~present THEN p
    ELSE IF p.rest = <<>> THEN [p EXCEPT !.tag = "Err"]
    ELSE [p EXCEPT ![name] = SubSeq(p.rest, 1, 1), !.rest = Drop(p.rest, 1)]

\* one optional field of read_from_bytes: `if rest.is_empty() { return Err }`
\* then `rest.split_at(n)`, which panics when n > rest.len()
TakeField(p, present, n, name) ==
    IF p.tag # "Run" \/ ~present THEN p
    ELSE IF p.rest = <<>> THEN [p EXCEPT !.tag = "Err"]
    ELSE IF n > Len(p.rest) THEN [p EXCEPT !.tag = "Panic"]
    ELSE [p EXCEPT ![name] = SubSeq(p.rest, 1, n), !.rest = Drop(p.rest, n)]

\* the packet number of read_from_bytes, in full or as its low byte
TakePacketNumber(p, full, packet_number, checks) ==
    IF p.tag # "Run" THEN p
    ELSE IF p.rest = <<>> THEN [p EXCEPT !.tag = "Err"]
    ELSE IF full
    THEN IF 2 > Len(p.rest) THEN [p EXCEPT !.tag = "Panic"]
         ELSE [p EXCEPT !.packet_number = from_be_bytes(p.rest[1], p.rest[2]),
                        !.rest = Drop(p.rest, 2)]
    ELSE LET n == interpret_packet_number_lo(p.rest[1], packet_number, checks)
         IN  IF n = None THEN [p EXCEPT !.tag = "Panic"]
             ELSE [p EXCEPT !.packet_number = n[1], !.rest = Drop(p.rest, 1)]

\* the slot counter of read_from_bytes
TakeSlotCounter(p) ==
    IF p.tag # "Run" THEN p
    ELSE IF Len(p.rest) < 2 THEN [p EXCEPT !.tag = "Err"]
    ELSE [p EXCEPT !.slot_counter = from_be_bytes(p.rest[1], p.rest[2]),
                   !.rest = Drop(p.rest, 2), !.tag = "Ok"]

\* ReceiveResponse::read_from_bytes: tag is Ok (with the fields, and rest
\* the received packets), Err, or Panic
read_from_bytes(bytes, packet_number, checks) ==
    LET blank == [tag |-> "Run", rest |-> <<>>, rx_buffers_used |-> None,
                  tx_buffers_free |-> None, unknown_1 |-> None, unknown_2 |-> None,
                  packet_number |-> 0, slot_counter |-> 0]
    IN  IF Len(bytes) < 5 THEN [blank EXCEPT !.tag = "Err"]
        ELSE
        LET status_type == from_be_bytes(bytes[1], bytes[2])
            p0 == [blank EXCEPT !.rest = Drop(bytes, 2)]
            p1 == TakeField(p0, ~BitSet(status_type, 1), 1, "rx_buffers_used")
            p2 == TakeField(p1, ~BitSet(status_type, 2), 1, "tx_buffers_free")
            p3 == TakeField(p2, ~BitSet(status_type, 4), 2, "unknown_1")
            p4 == TakeField(p3, ~BitSet(status_type, 8), 2, "unknown_2")
            p5 == TakePacketNumber(p4, ~BitSet(status_type, 16), packet_number, checks)
        IN  IF status_type - (status_type % 32) # 224 THEN [blank EXCEPT !.tag = "Err"]
            ELSE TakeSlotCounter(p5)

\* size_of::<ReceivedPacketHeader>()
HEADER_SIZE == 7

\* the iteration over pv::network::ReceivedPackets: the items it yields, each
\* Ok (header bytes and data) or Err (too short, which ends the iteration)
RECURSIVE ReceivedPackets(_)
ReceivedPackets(bytes) ==
    IF bytes = <<>> THEN <<>>
    ELSE IF Len(bytes) < HEADER_SIZE THEN <<[tag |-> "Err"]>>
    ELSE LET header == SubSeq(bytes, 1, HEADER_SIZE)
             rest == Drop(bytes, HEADER_SIZE)
             data_length == header[HEADER_SIZE]
         IN  IF Len(rest) < data_length THEN <<[tag |-> "Err"]>>
             ELSE <<[tag |-> "Ok", header |-> header, data |-> SubSeq(rest, 1, data_length)]>>
                  \o ReceivedPackets(Drop(rest, data_length))

---------------------------------------------------------------------------
(* Maps (BTreeMap): functions on the set of their keys                     *)

EmptyMap == <<>>
Has(m, k) == k \in DOMAIN m
Put(m, k, v) == [x \in (DOMAIN m) \cup {k} |-> IF x = k THEN v ELSE m[x]]
Remove(m, k) == [x \in (DOMAIN m) \ {k} |-> m[x]]

---------------------------------------------------------------------------
(* gateway::transport::receiver::Receiver, with a sink that records the    *)
(* notifications it is given                                               *)

\* the counters that count frames: each frame adds one to one of them
FrameCounters ==
    {"unhandled_frame_type", "invalid_receive_request", "receive_requests",
     "invalid_receive_responses", "receive_response_from_unknown_gateway",
     "receive_responses", "invalid_command_requests", "retransmitted_command_requests",
     "command_requests", "invalid_command_responses", "retransmitted_command_responses",
     "command_responses", "ping_requests", "ping_responses", "enumeration_start_requests",
     "invalid_enumeration_start_request", "enumeration_start_responses",
     "enumeration_requests", "enumeration_responses", "invalid_enumeration_responses",
     "version_requests", "version_responses", "invalid_version_responses",
     "enumeration_end_requests", "enumeration_end_responses",
     "invalid_enumeration_end_responses", "assign_gateway_id_requests",
     "assign_gateway_id_responses", "identify_requests", "identify_responses",
     "invalid_identify_responses"}

\* Counters::default()
NoTransportCounters ==
    [c \in FrameCounters \cup {"receive_packets", "receive_packet_too_short"} |-> 0]

\* Receiver::new
NewTransport ==
    [rx_packet_numbers |-> EmptyMap, command_sequence_numbers |-> EmptyMap,
     commands_awaiting_response |-> EmptyMap, counters |-> NoTransportCounters,
     sink |-> <<>>, panicked |-> FALSE]

\* size_of::<ReceiveRequest>()
RECEIVE_REQUEST_SIZE == 5

\* Receiver::receive_request
receive_request(t, frame) ==
    IF frame.address.dir # "To" \/ Len(frame.payload) # RECEIVE_REQUEST_SIZE
    THEN [t EXCEPT !.counters = Bump(@, "invalid_receive_request")]
    ELSE LET gateway_id == frame.address.id
             n == from_be_bytes(frame.payload[3], frame.payload[4])
         IN  [t EXCEPT !.sink = Append(@, [call |-> "gateway_slot_counter_captured",
                                           gateway_id |-> gateway_id]),
                       !.counters = Bump(@, "receive_requests"),
                       !.rx_packet_numbers = Put(@, gateway_id, n)]

\* the loop of receive_response over the received packets
RECURSIVE ObservePackets(_, _, _, _)
ObservePackets(t, gateway_id, packets, i) ==
    IF i > Len(packets) THEN t
    ELSE IF packets[i].tag = "Ok"
    THEN ObservePackets(
            [t EXCEPT !.counters = Bump(@, "receive_packets"),
                      !.sink = Append(@, [call |-> "packet_received",
                                          gateway_id |-> gateway_id,
                                          header |-> packets[i].header,
                                          data |-> packets[i].data])],
            gateway_id, packets, i + 1)
    ELSE ObservePackets([t EXCEPT !.counters = Bump(@, "receive_packet_too_short")],
                        gateway_id, packets, i + 1)

\* receive_response observing the slot counter after the packets
ReceiveResponsePacketsFirst(t, frame, checks) ==
    IF frame.address.dir # "From"
    THEN [t EXCEPT !.counters = Bump(@, "invalid_receive_responses")]
    ELSE IF ~Has(t.rx_packet_numbers, frame.address.id)
    THEN [t EXCEPT !.counters = Bump(@, "receive_response_from_unknown_gateway")]
    ELSE
    LET gateway_id == frame.address.id
        r == read_from_bytes(frame.payload, t.rx_packet_numbers[gateway_id], checks)
        observed == ObservePackets(
                [t EXCEPT !.counters = Bump(@, "receive_responses"),
                          !.rx_packet_numbers = Put(@, gateway_id, r.packet_number)],
                gateway_id, ReceivedPackets(r.rest), 1)
    IN  IF r.tag = "Panic" THEN [t EXCEPT !.panicked = TRUE]
        ELSE IF r.tag = "Err"
        THEN [t EXCEPT !.counters = Bump(@, "invalid_receive_responses")]
        ELSE [observed EXCEPT
                !.sink = Append(@, [call |-> "gateway_slot_counter_observed",
                                    gateway_id |-> gateway_id,
                                    slot_counter |-> r.slot_counter])]

\* Receiver::receive_response
receive_response(t, frame, checks) ==
    IF frame.address.dir # "From"
    THEN [t EXCEPT !.counters = Bump(@, "invalid_receive_responses")]
    ELSE IF ~Has(t.rx_packet_numbers, frame.address.id)
    THEN [t EXCEPT !.counters = Bump(@, "receive_response_from_unknown_gateway")]
    ELSE
    LET gateway_id == frame.address.id
        r == read_from_bytes(frame.payload, t.rx_packet_numbers[gateway_id], checks)
    IN  IF r.tag = "Panic" THEN [t EXCEPT !.panicked = TRUE]
        ELSE IF r.tag = "Err"
        THEN [t EXCEPT !.counters = Bump(@, "invalid_receive_responses")]
        ELSE ObservePackets(
                [t EXCEPT !.counters = Bump(@, "receive_responses"),
                          !.rx_packet_numbers = Put(@, gateway_id, r.packet_number),
                          !.sink = Append(@, [call |-> "gateway_slot_counter_observed",
                                              gateway_id |-> gateway_id,
                                              slot_counter |-> r.slot_counter])],
                gateway_id, ReceivedPackets(r.rest), 1)

\* size_of::<CommandRequest>(), size_of::<CommandResponse>()
COMMAND_REQUEST_SIZE == 5
COMMAND_RESPONSE_SIZE == 5

CommandRequestOverwriting(t, frame) ==
    IF frame.address.dir # "To" \/ Len(frame.payload) < COMMAND_REQUEST_SIZE
    THEN [t EXCEPT !.counters = Bump(@, "invalid_command_requests")]
    ELSE LET gateway_id == frame.address.id
             packet_type == frame.payload[4]
             sequence_number == frame.payload[5]
         IN  [t EXCEPT !.commands_awaiting_response =
                            Put(@, <<gateway_id, sequence_number>>,
                                [packet_type |-> packet_type,
                                 payload |-> Drop(frame.payload, COMMAND_REQUEST_SIZE)]),
                       !.command_sequence_numbers = Put(@, gateway_id, sequence_number),
                       !.counters = Bump(@, "command_requests")]

\* Receiver::command_request: the request is recorded as awaiting a response
\* before it is compared with the last sequence number of the gateway
command_request(t, frame) ==
    IF frame.address.dir # "To" \/ Len(frame.payload) < COMMAND_REQUEST_SIZE
    THEN [t EXCEPT !.counters = Bump(@, "invalid_command_requests")]
    ELSE LET gateway_id == frame.address.id
             packet_type == frame.payload[4]
             sequence_number == frame.payload[5]
             recorded == [t EXCEPT !.commands_awaiting_response =
                            Put(@, <<gateway_id, sequence_number>>,
                                [packet_type |-> packet_type,
                                 payload |-> Drop(frame.payload, COMMAND_REQUEST_SIZE)])]
             retransmission ==
                /\ Has(t.command_sequence_numbers, gateway_id)
                /\ t.command_sequence_numbers[gateway_id] = sequence_number
         IN  IF retransmission
             THEN [recorded EXCEPT !.counters = Bump(@, "retransmitted_command_requests")]
             ELSE [recorded EXCEPT
                      !.command_sequence_numbers = Put(@, gateway_id, sequence_number),
                      !.counters = Bump(@, "command_requests")]

CommandResponseKeepingPending(t, frame) ==
    IF frame.address.dir # "From" \/ Len(frame.payload) < COMMAND_RESPONSE_SIZE
    THEN [t EXCEPT !.counters = Bump(@, "invalid_command_responses")]
    ELSE LET gateway_id == frame.address.id
             key == <<gateway_id, frame.payload[5]>>
         IN  IF ~Has(t.commands_awaiting_response, key)
             THEN [t EXCEPT !.counters = Bump(@, "retransmitted_command_responses")]
             ELSE [t EXCEPT
                      !.counters = Bump(@, "command_responses"),
                      !.sink = Append(@,
                          [call |-> "command_executed", gateway_id |-> gateway_id,
                           request |-> t.commands_awaiting_response[key],
                           response |-> [packet_type |-> frame.payload[4],
                                         payload |-> Drop(frame.payload,
                                                          COMMAND_RESPONSE_SIZE)]])]

\* Receiver::command_response
command_response(t, frame) ==
    IF frame.address.dir # "From" \/ Len(frame.payload) < COMMAND_RESPONSE_SIZE
    THEN [t EXCEPT !.counters = Bump(@, "invalid_command_responses")]
    ELSE LET gateway_id == frame.address.id
             key == <<gateway_id, frame.payload[5]>>
         IN  IF ~Has(t.commands_awaiting_response, key)
             THEN [t EXCEPT !.counters = Bump(@, "retransmitted_command_responses")]
             ELSE [t EXCEPT
                      !.commands_awaiting_response = Remove(@, key),
                      !.counters = Bump(@, "command_responses"),
                      !.sink = Append(@,
                          [call |-> "command_executed", gateway_id |-> gateway_id,
                           request |-> t.commands_awaiting_response[key],
                           response |-> [packet_type |-> frame.payload[4],
                                         payload |-> Drop(frame.payload,
                                                          COMMAND_RESPONSE_SIZE)]])]

\* size_of::<EnumerationStartRequest>(), size_of::<IdentifyResponse>()
ENUMERATION_START_REQUEST_SIZE == 6
IDENTIFY_RESPONSE_SIZE == 10

\* Receiver::enumeration_start_request
enumeration_start_request(t, frame) ==
    IF \/ frame.address # To(0)
       \/ Len(frame.payload) # ENUMERATION_START_REQUEST_SIZE
       \/ AddressFromBytes(frame.payload[5], frame.payload[6]).dir # "To"
    THEN [t EXCEPT !.counters = Bump(@, "invalid_enumeration_start_request")]
    ELSE [t EXCEPT
            !.counters = Bump(@, "enumeration_start_requests"),
            !.sink = Append(@,
                [call |-> "enumeration_started",
                 gateway_id |-> AddressFromBytes(frame.payload[5], frame.payload[6]).id])]

\* Receiver::identify_response and Receiver::enumeration_response, which
\* differ in the counters only
IdentityResponse(t, frame, counted, invalid) ==
    IF frame.address.dir # "From" \/ Len(frame.payload) # IDENTIFY_RESPONSE_SIZE
    THEN [t EXCEPT !.counters = Bump(@, invalid)]
    ELSE [t EXCEPT
            !.counters = Bump(@, counted),
            !.sink = Append(@, [call |-> "gateway_identity_observed",
                                gateway_id |-> frame.address.id,
                                address |-> SubSeq(frame.payload, 1, 8)])]

identify_response(t, frame) ==
    IdentityResponse(t, frame, "identify_responses", "invalid_identify_responses")

enumeration_response(t, frame) ==
    IdentityResponse(t, frame, "enumeration_responses", "invalid_enumeration_responses")

\* std::str::from_utf8(bytes[i..]).is_ok()
RECURSIVE Utf8From(_, _)
Utf8From(bytes, i) ==
    LET n == Len(bytes)
        b == bytes[i]
        Cont(j, lo, hi) == j <= n /\ bytes[j] \in lo..hi
    IN  IF i > n THEN TRUE
        ELSE IF b <= 127 THEN Utf8From(bytes, i + 1)
        ELSE IF b \in 194..223 THEN Cont(i + 1, 128, 191) /\ Utf8From(bytes, i + 2)
        ELSE IF b \in 224..239
        THEN /\ Cont(i + 1, IF b = 224 THEN 160 ELSE 128, IF b = 237 THEN 159 ELSE 191)
             /\ Cont(i + 2, 128, 191)
             /\ Utf8From(bytes, i + 3)
        ELSE IF b \in 240..244
        THEN /\ Cont(i + 1, IF b = 240 THEN 144 ELSE 128, IF b = 244 THEN 143 ELSE 191)
             /\ Cont(i + 2, 128, 191)
             /\ Cont(i + 3, 128, 191)
             /\ Utf8From(bytes, i + 4)
        ELSE FALSE

\* Receiver::version_response
version_response(t, frame) ==
    IF \/ frame.address.dir # "From"
       \/ ~Utf8From(frame.payload, 1)
       \/ frame.payload = <<>>
    THEN [t EXCEPT !.counters = Bump(@, "invalid_version_responses")]
    ELSE [t EXCEPT
            !.counters = Bump(@, "version_responses"),
            !.sink = Append(@, [call |-> "gateway_version_observed",
                                gateway_id |-> frame.address.id,
                                version |-> frame.payload])]

\* the arm of ENUMERATION_END_RESPONSE
enumeration_end_response(t, frame) ==
    IF frame.address.dir = "From"
    THEN [t EXCEPT !.counters = Bump(@, "enumeration_end_responses"),
                   !.sink = Append(@, [call |-> "enumeration_ended",
                                       gateway_id |-> frame.address.id])]
    ELSE [t EXCEPT !.counters = Bump(@, "invalid_enumeration_end_responses")]

\* the arms of frame that only count the frame
CountedOnly(frame_type) ==
    CASE frame_type = PING_REQUEST -> "ping_requests"
      [] frame_type = PING_RESPONSE -> "ping_responses"
      [] frame_type = ENUMERATION_START_RESPONSE -> "enumeration_start_responses"
      [] frame_type = ENUMERATION_REQUEST -> "enumeration_requests"
      [] frame_type = ASSIGN_GATEWAY_ID_REQUEST -> "assign_gateway_id_requests"
      [] frame_type = ASSIGN_GATEWAY_ID_RESPONSE -> "assign_gateway_id_responses"
      [] frame_type = IDENTIFY_REQUEST -> "identify_requests"
      [] frame_type = VERSION_REQUEST -> "version_requests"
      [] frame_type = ENUMERATION_END_REQUEST -> "enumeration_end_requests"
      [] OTHER -> "unhandled_frame_type"

\* impl link::Sink for Receiver: frame
transport_frame(t, frame, checks) ==
    CASE frame.frame_type = RECEIVE_REQUEST -> receive_request(t, frame)
      [] frame.frame_type = RECEIVE_RESPONSE -> receive_response(t, frame, checks)
      [] frame.frame_type = COMMAND_REQUEST -> command_request(t, frame)
      [] frame.frame_type = COMMAND_RESPONSE -> command_response(t, frame)
      [] frame.frame_type = ENUMERATION_START_REQUEST -> enumeration_start_request(t, frame)
      [] frame.frame_type = ENUMERATION_RESPONSE -> enumeration_response(t, frame)
      [] frame.frame_type = IDENTIFY_RESPONSE -> identify_response(t, frame)
      [] frame.frame_type = VERSION_RESPONSE -> version_response(t, frame)
      [] frame.frame_type = ENUMERATION_END_RESPONSE -> enumeration_end_response(t, frame)
      [] OTHER -> [t EXCEPT !.counters = Bump(@, CountedOnly(frame.frame_type))]

---------------------------------------------------------------------------
(* The frames given to the transport receiver                              *)

\* number of frames in a run
MaxFrames == 3

TransportGateways == {4609, 4610}

\* receive request payloads: packet numbers 0x40FB and 0xFFFE, and one that
\* is too short
RequestPayloads == {<<0, 1, 64, 251, 4>>, <<0, 1, 255, 254, 4>>, <<0, 1, 24>>}

\* receive response payloads of transport.rs tests::rx_response_from_bytes,
\* one with status 0x00E7, one with two received packets, one with an
\* unknown status
FullResponsePayloads ==
    { <<0, 224, 4, 14, 0, 1, 2, 0, 64, 251, 33, 27, 1, 2, 3>>,
      <<0, 254, 2, 255, 33, 34, 4>>,
      <<0, 238, 0, 65, 1, 33, 39>>,
      <<0, 231, 2, 0, 64, 251, 33, 27>>,
      <<0, 255, 3, 33, 49, 49, 0, 2, 0, 3, 5, 2, 170, 187, 49, 0, 3, 0, 4, 6, 0>>,
      <<0, 31, 3, 33, 49>> }

Prefixes(bytes) == {SubSeq(bytes, 1, n) : n \in 0..Len(bytes)}

\* every payload above cut at every length
ResponsePayloads == UNION {Prefixes(p) : p \in FullResponsePayloads}

TransportFrames ==
    {Frame(a, RECEIVE_REQUEST, p) :
        a \in {To(g) : g \in TransportGateways} \cup {From(4609)}, p \in RequestPayloads}
    \cup {Frame(From(4609), RECEIVE_RESPONSE, p) : p \in ResponsePayloads}
    \cup {Frame(From(4610), RECEIVE_RESPONSE, <<0, 254, 2, 255, 33, 34, 4>>),
          Frame(To(4609), RECEIVE_RESPONSE, <<0, 255, 3, 33, 49>>),
          Frame(From(4609), 65535, <<>>)}

\* command requests: two gateways, two sequence numbers, a string request
\* without a tail and a node table request with one; one from a gateway and
\* one too short
CommandRequestFrames ==
    {Frame(To(g), COMMAND_REQUEST, <<0, 0, 0>> \o c \o <<n>> \o tail) :
        g \in TransportGateways, n \in {1, 2}, c \in {<<6>>}, tail \in {<<>>}}
    \cup {Frame(To(g), COMMAND_REQUEST, <<0, 0, 0, 38, n, 65>>) :
        g \in TransportGateways, n \in {1, 2}}
    \cup {Frame(From(4609), COMMAND_REQUEST, <<0, 0, 0, 6, 1>>),
          Frame(To(4609), COMMAND_REQUEST, <<0, 0, 0, 6>>)}

\* command responses: a string response with a tail for each gateway and
\* sequence number; one to a gateway and one too short
CommandResponseFrames ==
    {Frame(From(g), COMMAND_RESPONSE, <<0, 14, 0, 7, n, 66>>) :
        g \in TransportGateways, n \in {1, 2}}
    \cup {Frame(To(4609), COMMAND_RESPONSE, <<0, 14, 0, 7, 1, 66>>),
          Frame(From(4609), COMMAND_RESPONSE, <<0, 14, 0, 7>>)}

\* frames of the other kinds that notify the sink, and one that only counts
OtherFrames ==
    { Frame(To(0), ENUMERATION_START_REQUEST, <<0, 0, 0, 0, 18, 53>>),
      Frame(From(4661), ENUMERATION_RESPONSE, <<4, 192, 91, 48, 0, 2, 190, 22, 18, 53>>),
      Frame(From(4609), IDENTIFY_RESPONSE, <<4, 192, 91, 48, 0, 2, 190, 22, 18, 1>>),
      Frame(From(4609), VERSION_RESPONSE, <<77, 103, 97, 116, 101>>),
      Frame(From(4609), VERSION_RESPONSE, <<77, 255>>),
      Frame(From(4609), ENUMERATION_END_RESPONSE, <<>>),
      Frame(To(4609), PING_REQUEST, <<>>),
      Frame(To(4609), RECEIVE_REQUEST, <<0, 1, 49, 49, 4>>),
      Frame(From(4609), RECEIVE_RESPONSE,
            <<0, 255, 50, 33, 49, 49, 0, 2, 0, 3, 5, 2, 170, 187, 49, 0, 3, 0, 4, 6, 0>>) }

CommandFrames == CommandRequestFrames \cup CommandResponseFrames \cup OtherFrames

\* packet numbers a receive request leaves as the expectation: the least and
\* the greatest, and those next to a change of the high byte
Expectations == {0, 255, 256, 16635, 32767, 65279, 65280, 65534, 65535}

\* low bytes of the packet number of a receive response
LowBytes == {0, 1, 3, 127, 250, 251, 254, 255}

ExpectationFrames ==
    {Frame(To(4609), RECEIVE_REQUEST, <<0, 1>> \o to_be_bytes(e) \o <<4>>) :
        e \in Expectations}

\* receive responses with status 0x00FF: the low byte of the packet number
\* and the slot counter
LowByteFrames ==
    {Frame(From(4609), RECEIVE_RESPONSE, <<0, 255, lo, 33, 49>>) : lo \in LowBytes}

---------------------------------------------------------------------------
(* Transport actions                                                       *)

TransportInit ==
    /\ rx_packet_numbers = NewTransport.rx_packet_numbers
    /\ command_sequence_numbers = NewTransport.command_sequence_numbers
    /\ commands_awaiting_response = NewTransport.commands_awaiting_response
    /\ transport_counters = NewTransport.counters
    /\ notifications = NewTransport.sink
    /\ panicked = FALSE
    /\ last_frame = None
    /\ before_frame = NewTransport

Transport ==
    [rx_packet_numbers |-> rx_packet_numbers,
     command_sequence_numbers |-> command_sequence_numbers,
     commands_awaiting_response |-> commands_awaiting_response,
     counters |-> transport_counters, sink |-> notifications, panicked |-> panicked]

\* the frames the receiver has returned from: each counts once
FramesHandled ==
    LET c == transport_counters
    IN  c.unhandled_frame_type + c.invalid_receive_request + c.receive_requests
        + c.invalid_receive_responses + c.receive_response_from_unknown_gateway + c.receive_responses
        + c.invalid_command_requests + c.retransmitted_command_requests + c.command_requests
        + c.invalid_command_responses + c.retransmitted_command_responses + c.command_responses
        + c.ping_requests + c.ping_responses + c.enumeration_start_requests
        + c.invalid_enumeration_start_request + c.enumeration_start_responses + c.enumeration_requests
        + c.enumeration_responses + c.invalid_enumeration_responses + c.version_requests
        + c.version_responses + c.invalid_version_responses + c.enumeration_end_requests
        + c.enumeration_end_responses + c.invalid_enumeration_end_responses + c.assign_gateway_id_requests
        + c.assign_gateway_id_responses + c.identify_requests + c.identify_responses
        + c.invalid_identify_responses

\* link::Sink::frame on the transport receiver; a panic ends the process
HandleFrame(frame) ==
    /\ ~panicked
    /\ LET t == transport_frame(Transport, frame, overflow_checks)
       IN  /\ rx_packet_numbers' = t.rx_packet_numbers
           /\ command_sequence_numbers' = t.command_sequence_numbers
           /\ commands_awaiting_response' = t.commands_awaiting_response
           /\ transport_counters' = t.counters
           /\ notifications' = t.sink
           /\ panicked' = t.panicked
    /\ last_frame' = Some(frame)
    /\ before_frame' = Transport
    /\ UNCHANGED <<overflow_checks, link_vars, observer_vars, clock_vars, codec_vars>>

\* a frame of a run of MaxFrames frames
TransportFrame(frame) ==
    /\ FramesHandled < MaxFrames
    /\ HandleFrame(frame)

\* number of frames in an exchange of commands
MaxExchange == 4

\* the command requests and responses of one gateway, two sequence numbers
ExchangeFrames ==
    {Frame(To(4609), COMMAND_REQUEST, <<0, 0, 0, 38, n, 65>>) : n \in {1, 2}}
    \cup {Frame(From(4609), COMMAND_RESPONSE, <<0, 14, 0, 7, n, 66>>) : n \in {1, 2}}

\* a frame of an exchange of commands
ExchangeFrame(frame) ==
    /\ FramesHandled < MaxExchange
    /\ HandleFrame(frame)

---------------------------------------------------------------------------
(* observer::node_table::NodeTableBuilder                                  *)

\* NodeTableBuilder::default()
NewBuilder == [expected_next |-> None, table |-> EmptyMap]

\* impl From<Option<NodeID>> for NodeAddress
NodeAddressFrom(node_id) == IF node_id = None THEN 0 ELSE node_id[1]

\* NodeID::successor: checked_add(1) on a NonZeroU16
successor(node_id) == IF node_id + 1 > 65535 THEN None ELSE Some(node_id + 1)

\* BTreeMap::last_entry: the entry with the greatest key
LastKey(table) == CHOOSE k \in DOMAIN table : \A j \in DOMAIN table : j <= k

\* the loop of push over the entries: the table after the insertions, and
\* whether an entry with node address 0 stopped it
RECURSIVE InsertEntries(_, _, _)
InsertEntries(table, entries, i) ==
    IF i > Len(entries) THEN [table |-> table, failed |-> FALSE]
    ELSE IF entries[i].node_id = 0 THEN [table |-> table, failed |-> TRUE]
    ELSE InsertEntries(Put(table, entries[i].node_id, entries[i].long_address),
                       entries, i + 1)

\* the test made after a reset, on which push returns without inserting
IgnoredAfterReset(start_address) == start_address = 0

\* push returning the table at an empty page and keeping it in the builder
PushKeepingTable(builder, start_address, entries) ==
    LET reset == NodeAddressFrom(builder.expected_next) # start_address
        b0 == IF reset THEN NewBuilder ELSE builder
        ins == InsertEntries(b0.table, entries, 1)
    IN  IF reset /\ IgnoredAfterReset(start_address)
        THEN [builder |-> b0, result |-> None]
        ELSE IF ins.failed
        THEN [builder |-> [expected_next |-> None, table |-> ins.table], result |-> None]
        ELSE IF entries = <<>>
        THEN [builder |-> [expected_next |-> None, table |-> ins.table],
              result |-> Some(ins.table)]
        ELSE LET next == successor(LastKey(ins.table))
             IN  [builder |-> [expected_next |-> next,
                               table |-> IF next = None THEN EmptyMap ELSE ins.table],
                  result |-> None]

\* NodeTableBuilder::push: the builder afterwards and the table returned
push(builder, start_address, entries) ==
    LET reset == NodeAddressFrom(builder.expected_next) # start_address
        b0 == IF reset THEN NewBuilder ELSE builder
        ins == InsertEntries(b0.table, entries, 1)
    IN  IF reset /\ IgnoredAfterReset(start_address)
        THEN [builder |-> b0, result |-> None]
        ELSE IF ins.failed
        THEN [builder |-> [expected_next |-> None, table |-> ins.table], result |-> None]
        ELSE IF entries = <<>>
        THEN [builder |-> [expected_next |-> None, table |-> EmptyMap],
              result |-> Some(ins.table)]
        ELSE LET next == successor(LastKey(ins.table))
             IN  [builder |-> [expected_next |-> next,
                               table |-> IF next = None THEN EmptyMap ELSE ins.table],
                  result |-> None]

---------------------------------------------------------------------------
(* observer::Observer                                                      *)

\* PersistentState::default()
NoPersistentState ==
    [gateway_node_tables |-> EmptyMap, gateway_identities |-> EmptyMap,
     gateway_versions |-> EmptyMap]

\* Observer::default()
NewObserver ==
    [persistent_state |-> NoPersistentState, enumeration_state |-> None,
     node_table_builders |-> EmptyMap]

\* Observer::enumeration_started
enumeration_started(o, enumeration_gateway_id) ==
    [o EXCEPT !.enumeration_state =
        Some([enumeration_gateway_id |-> enumeration_gateway_id,
              gateway_identities |-> EmptyMap, gateway_versions |-> EmptyMap])]

\* EnumerationState::gateway_identity_observed storing every identity
EnumerationIdentityStored(e, gateway, address) ==
    [e EXCEPT !.gateway_identities = Put(@, gateway, address)]

\* EnumerationState::gateway_identity_observed
EnumerationIdentityObserved(e, gateway, address) ==
    IF gateway = e.enumeration_gateway_id THEN e
    ELSE [e EXCEPT !.gateway_identities = Put(@, gateway, address)]

\* gateway_identity_observed storing into the persistent state at all times
IdentityObservedUnbuffered(o, gateway_id, address) ==
    [o EXCEPT !.persistent_state.gateway_identities = Put(@, gateway_id, address)]

\* Observer::gateway_identity_observed
gateway_identity_observed(o, gateway_id, address) ==
    IF o.enumeration_state # None
    THEN [o EXCEPT !.enumeration_state =
            Some(EnumerationIdentityObserved(@[1], gateway_id, address))]
    ELSE [o EXCEPT !.persistent_state.gateway_identities = Put(@, gateway_id, address)]

\* Observer::gateway_version_observed
gateway_version_observed(o, gateway_id, version) ==
    IF o.enumeration_state # None
    THEN [o EXCEPT !.enumeration_state =
            Some([@[1] EXCEPT !.gateway_versions = Put(@, gateway_id, version)])]
    ELSE [o EXCEPT !.persistent_state.gateway_versions = Put(@, gateway_id, version)]

\* the entries of new added to those of old
Merge(old, new) == [k \in (DOMAIN old) \cup (DOMAIN new) |->
                        IF k \in DOMAIN new THEN new[k] ELSE old[k]]

\* enumeration_ended extending the persistent maps instead of replacing them
EnumerationEndedMerging(o, gateway_id) ==
    IF o.enumeration_state # None
    THEN [o EXCEPT !.persistent_state.gateway_identities =
                        Merge(@, o.enumeration_state[1].gateway_identities),
                   !.persistent_state.gateway_versions =
                        Merge(@, o.enumeration_state[1].gateway_versions),
                   !.enumeration_state = None]
    ELSE o

\* enumeration_ended taking an empty enumeration when none is active
EnumerationEndedUnstarted(o, gateway_id) ==
    IF o.enumeration_state # None
    THEN [o EXCEPT !.persistent_state.gateway_identities =
                        o.enumeration_state[1].gateway_identities,
                   !.persistent_state.gateway_versions =
                        o.enumeration_state[1].gateway_versions,
                   !.enumeration_state = None]
    ELSE [o EXCEPT !.persistent_state.gateway_identities = EmptyMap,
                   !.persistent_state.gateway_versions = EmptyMap]

\* Observer::enumeration_ended
enumeration_ended(o, gateway_id) ==
    IF o.enumeration_state # None
    THEN [o EXCEPT !.persistent_state.gateway_identities =
                        o.enumeration_state[1].gateway_identities,
                   !.persistent_state.gateway_versions =
                        o.enumeration_state[1].gateway_versions,
                   !.enumeration_state = None]
    ELSE o

\* node_table_page taking the builder's table into the persistent state at
\* every page
NodeTablePageCommittingEachPage(o, gateway_id, start_address, nodes) ==
    LET builder == IF Has(o.node_table_builders, gateway_id)
                   THEN o.node_table_builders[gateway_id] ELSE NewBuilder
        pushed == push(builder, start_address, nodes)
        o1 == [o EXCEPT !.node_table_builders = Put(@, gateway_id, pushed.builder)]
    IN  IF pushed.result # None
        THEN [observer |-> [o1 EXCEPT !.persistent_state.gateway_node_tables =
                                            Put(@, gateway_id, pushed.result[1])],
              committed |-> TRUE]
        ELSE [observer |-> [o1 EXCEPT !.persistent_state.gateway_node_tables =
                                            Put(@, gateway_id, pushed.builder.table)],
              committed |-> FALSE]

\* Observer::node_table_page: the observer afterwards, and whether push
\* returned a table
node_table_page(o, gateway_id, start_address, nodes) ==
    LET builder == IF Has(o.node_table_builders, gateway_id)
                   THEN o.node_table_builders[gateway_id] ELSE NewBuilder
        pushed == push(builder, start_address, nodes)
        o1 == [o EXCEPT !.node_table_builders = Put(@, gateway_id, pushed.builder)]
    IN  IF pushed.result # None
        THEN [observer |-> [o1 EXCEPT !.persistent_state.gateway_node_tables =
                                            Put(@, gateway_id, pushed.result[1])],
              committed |-> TRUE]
        ELSE [observer |-> o1, committed |-> FALSE]

---------------------------------------------------------------------------
(* The callbacks given to the observer                                     *)

\* gateway ids: two persistent ones and the id used while enumerating
ObserverGateways == {4609, 4610, 4661}
EnumerationIDs == {4661}

LongAddresses == {<<4, 192, 91, 48, 0, 2, 190, 22>>, <<4, 192, 91, 48, 0, 2, 190, 23>>}
Versions == {"Mgate Version G8.59"}

\* number of node table pages in a run
MaxPages == 3
\* number of entries in a node table page
MaxEntries == 2

NodeTableGateways == {4609, 4610}
StartAddresses == {0, 2, 3}

\* node table entries: node addresses 1, 2 and the greatest, each with its
\* long address, and node address 0
PageEntries ==
    { [long_address |-> <<4, 192, 91, 64, 0, 162, 52, 111>>, node_id |-> 1],
      [long_address |-> <<4, 192, 91, 64, 0, 162, 52, 113>>, node_id |-> 2],
      [long_address |-> <<4, 192, 91, 64, 0, 162, 52, 116>>, node_id |-> 65535],
      [long_address |-> <<4, 192, 91, 64, 0, 162, 52, 117>>, node_id |-> 0] }

Pages == UNION {[1..n -> PageEntries] : n \in 0..MaxEntries}

---------------------------------------------------------------------------
(* Observer actions                                                        *)

ObserverInit ==
    /\ persistent_state = NewObserver.persistent_state
    /\ enumeration_state = NewObserver.enumeration_state
    /\ node_table_builders = NewObserver.node_table_builders
    /\ last_call = "new"
    /\ before_call = [gateway_identities |-> EmptyMap, gateway_versions |-> EmptyMap,
                      enumeration_state |-> None]
    /\ pages = 0
    /\ committed = FALSE
    /\ chain_next = [g \in NodeTableGateways |-> None]
    /\ chain_done = FALSE
    /\ before_node_tables = NewObserver.persistent_state.gateway_node_tables
    /\ last_page = None
    /\ before_page = None
    /\ last_identity = None

Observer ==
    [persistent_state |-> persistent_state, enumeration_state |-> enumeration_state,
     node_table_builders |-> node_table_builders]

\* the observer's fields become those of o, after the callback named
Becomes(o, call) ==
    /\ persistent_state' = o.persistent_state
    /\ enumeration_state' = o.enumeration_state
    /\ node_table_builders' = o.node_table_builders
    /\ last_call' = call
    /\ before_call' = [gateway_identities |-> persistent_state.gateway_identities,
                       gateway_versions |-> persistent_state.gateway_versions,
                       enumeration_state |-> enumeration_state]
    /\ before_node_tables' = persistent_state.gateway_node_tables

EnumerationStarted(enumeration_gateway_id) ==
    /\ Becomes(enumeration_started(Observer, enumeration_gateway_id), "enumeration_started")
    /\ last_page' = None
    /\ before_page' = None
    /\ last_identity' = None
    /\ UNCHANGED <<pages, committed, chain_next, chain_done, link_vars, transport_vars,
                   clock_vars, codec_vars>>

GatewayIdentityObserved(gateway_id, address) ==
    /\ Becomes(gateway_identity_observed(Observer, gateway_id, address),
               "gateway_identity_observed")
    /\ last_page' = None
    /\ before_page' = None
    /\ last_identity' = Some([gateway_id |-> gateway_id, address |-> address])
    /\ UNCHANGED <<pages, committed, chain_next, chain_done, link_vars, transport_vars,
                   clock_vars, codec_vars>>

GatewayVersionObserved(gateway_id, version) ==
    /\ Becomes(gateway_version_observed(Observer, gateway_id, version),
               "gateway_version_observed")
    /\ last_page' = None
    /\ before_page' = None
    /\ last_identity' = None
    /\ UNCHANGED <<pages, committed, chain_next, chain_done, link_vars, transport_vars,
                   clock_vars, codec_vars>>

EnumerationEnded(gateway_id) ==
    /\ Becomes(enumeration_ended(Observer, gateway_id), "enumeration_ended")
    /\ last_page' = None
    /\ before_page' = None
    /\ last_identity' = None
    /\ UNCHANGED <<pages, committed, chain_next, chain_done, link_vars, transport_vars,
                   clock_vars, codec_vars>>

\* the page begins a sequence (start address 0) or follows the previous page
\* of the gateway (start address = that page's last node address + 1)
InSequence(gateway_id, start_address) ==
    start_address = 0 \/ chain_next[gateway_id] = Some(start_address)

NodeTablePage(gateway_id, start_address, nodes) ==
    /\ pages < MaxPages
    /\ pages' = pages + 1
    /\ LET r == node_table_page(Observer, gateway_id, start_address, nodes)
       IN  /\ Becomes(r.observer, "node_table_page")
           /\ committed' = r.committed
    /\ last_page' = Some(nodes)
    /\ last_identity' = None
    /\ before_page' = Some([gateway_id |-> gateway_id, start_address |-> start_address,
                            builder |-> IF Has(node_table_builders, gateway_id)
                                        THEN node_table_builders[gateway_id]
                                        ELSE NewBuilder])
    /\ chain_done' = (nodes = <<>> /\ InSequence(gateway_id, start_address))
    /\ chain_next' =
          [chain_next EXCEPT ![gateway_id] =
              IF nodes # <<>> /\ InSequence(gateway_id, start_address)
              THEN Some(nodes[Len(nodes)].node_id + 1)
              ELSE None]
    /\ UNCHANGED <<link_vars, transport_vars, clock_vars, codec_vars>>

---------------------------------------------------------------------------
(* observer::slot_clock                                                    *)

\* SlotNumber::try_from: the greatest slot number
MAX_SLOT_NUMBER == 11999
\* milliseconds
NOMINAL_DURATION_PER_SLOT == 5
NOMINAL_DURATION_PER_INDEX == 5000

\* SlotCounter::epoch as u8
epoch(slot_counter) == slot_counter \div 16384

\* SlotCounter::slot_number
slot_number(slot_counter) ==
    LET n == slot_counter % 16384
    IN  IF n <= MAX_SLOT_NUMBER THEN [tag |-> "Ok", value |-> n]
        ELSE [tag |-> "Err", value |-> n]

\* SlotClock::index_and_offset
index_and_offset(slot_counter) ==
    LET n == slot_number(slot_counter)
        absolute_slot == epoch(slot_counter) * 12000 + n.value
    IN  IF n.tag = "Err" THEN n
        ELSE [tag |-> "Ok", index |-> absolute_slot \div 1000,
              offset |-> NOMINAL_DURATION_PER_SLOT * (absolute_slot % 1000)]

\* the loop of SlotClock::new and SlotClock::set: from index i, walk
\* backwards until the index stop, a nominal duration earlier at each step
RECURSIVE WalkBackwards(_, _, _, _)
WalkBackwards(times, i, index_time, stop) ==
    LET j == (47 + i) % 48
    IN  IF j = stop THEN times
        ELSE WalkBackwards([times EXCEPT ![j] = index_time - NOMINAL_DURATION_PER_INDEX],
                           j, index_time - NOMINAL_DURATION_PER_INDEX, stop)

\* SlotClock::new giving every index the time of the index observed
SlotClockNewUnseeded(slot_counter, time) ==
    LET io == index_and_offset(slot_counter)
        index_time == time - io.offset
    IN  IF io.tag = "Err" THEN None
        ELSE Some([times |-> [i \in 0..47 |-> index_time],
                   last_index |-> io.index,
                   last_time |-> time])

\* SlotClock::new: None for an invalid slot number
SlotClockNew(slot_counter, time) ==
    LET io == index_and_offset(slot_counter)
        index_time == time - io.offset
    IN  IF io.tag = "Err" THEN None
        ELSE Some([times |-> WalkBackwards([i \in 0..47 |-> index_time], io.index,
                                           index_time, io.index),
                   last_index |-> io.index,
                   last_time |-> time])

\* SlotClock::set assigning the times of the indices walked and not the time
\* of the index observed
SetKeepingIndexTime(clock, slot_counter, time) ==
    LET io == index_and_offset(slot_counter)
        index_time == time - io.offset
    IN  IF io.tag = "Err" THEN clock
        ELSE IF clock.last_time > time
        THEN LET new == SlotClockNew(slot_counter, time)
             IN  IF new = None THEN clock ELSE new[1]
        ELSE IF clock.last_index # io.index
        THEN [times |-> WalkBackwards(clock.times, io.index, index_time, clock.last_index),
              last_index |-> io.index,
              last_time |-> time]
        ELSE [clock EXCEPT !.last_index = io.index, !.last_time = time]

\* SlotClock::set walking backwards through the last index assigned
SetThroughLastIndex(clock, slot_counter, time) ==
    LET io == index_and_offset(slot_counter)
        index_time == time - io.offset
    IN  IF io.tag = "Err" THEN clock
        ELSE IF clock.last_time > time
        THEN LET new == SlotClockNew(slot_counter, time)
             IN  IF new = None THEN clock ELSE new[1]
        ELSE IF clock.last_index # io.index
        THEN [times |-> WalkBackwards([clock.times EXCEPT ![io.index] = index_time],
                                      io.index, index_time, (47 + clock.last_index) % 48),
              last_index |-> io.index,
              last_time |-> time]
        ELSE [clock EXCEPT !.last_index = io.index, !.last_time = time]

\* SlotClock::set not recording the time of an observation in the last index
SetKeepingLastTime(clock, slot_counter, time) ==
    LET io == index_and_offset(slot_counter)
        index_time == time - io.offset
    IN  IF io.tag = "Err" THEN clock
        ELSE IF clock.last_time > time
        THEN LET new == SlotClockNew(slot_counter, time)
             IN  IF new = None THEN clock ELSE new[1]
        ELSE IF clock.last_index # io.index
        THEN [times |-> WalkBackwards([clock.times EXCEPT ![io.index] = index_time],
                                      io.index, index_time, clock.last_index),
              last_index |-> io.index,
              last_time |-> time]
        ELSE clock

\* SlotClock::set assigning the time of the index at every observation
SetReanchoringIndex(clock, slot_counter, time) ==
    LET io == index_and_offset(slot_counter)
        index_time == time - io.offset
    IN  IF io.tag = "Err" THEN clock
        ELSE IF clock.last_time > time
        THEN LET new == SlotClockNew(slot_counter, time)
             IN  IF new = None THEN clock ELSE new[1]
        ELSE IF clock.last_index # io.index
        THEN [times |-> WalkBackwards([clock.times EXCEPT ![io.index] = index_time],
                                      io.index, index_time, clock.last_index),
              last_index |-> io.index,
              last_time |-> time]
        ELSE [clock EXCEPT !.times[io.index] = index_time,
                           !.last_index = io.index, !.last_time = time]

\* SlotClock::set taking a time before the last as it takes any other
SetIgnoringRegression(clock, slot_counter, time) ==
    LET io == index_and_offset(slot_counter)
        index_time == time - io.offset
    IN  IF io.tag = "Err" THEN clock
        ELSE IF clock.last_index # io.index
        THEN [times |-> WalkBackwards([clock.times EXCEPT ![io.index] = index_time],
                                      io.index, index_time, clock.last_index),
              last_index |-> io.index,
              last_time |-> time]
        ELSE [clock EXCEPT !.last_index = io.index, !.last_time = time]

\* SlotClock::set: the clock afterwards (unchanged for an invalid slot
\* number)
set(clock, slot_counter, time) ==
    LET io == index_and_offset(slot_counter)
        index_time == time - io.offset
    IN  IF io.tag = "Err" THEN clock
        ELSE IF clock.last_time > time
        THEN LET new == SlotClockNew(slot_counter, time)
             IN  IF new = None THEN clock ELSE new[1]
        ELSE IF clock.last_index # io.index
        THEN [times |-> WalkBackwards([clock.times EXCEPT ![io.index] = index_time],
                                      io.index, index_time, clock.last_index),
              last_index |-> io.index,
              last_time |-> time]
        ELSE [clock EXCEPT !.last_index = io.index, !.last_time = time]

\* SlotClock::get, for a valid slot number
get(clock, slot_counter) ==
    LET io == index_and_offset(slot_counter)
    IN  clock.times[io.index] + io.offset

\* number of observations in a run
MaxObservations == 3

\* slot counters: the ends of index 0, the start of index 1, the start of
\* epoch 4, the last slot of epoch C, and an invalid slot number
SlotCounters == {0, 999, 1000, 16384, 61151, 12000}
\* the time of the first observation and the time from one observation to
\* the next, in milliseconds
StartTimes == {300000}
TimeSteps == {-5000, 0, 5, 5000, 240000}

ClockInit ==
    /\ slot_clock = None
    /\ observation = None
    /\ anchor = None
    /\ monotone = TRUE
    /\ observations = 0
    /\ clock_call = None
    /\ captured_slot_counters = EmptyMap
    /\ slot_clocks = EmptyMap
    /\ events = <<>>
    /\ now = 300000
    /\ capture_pending = {}

\* the observation that anchors the index of (slot_counter, time) when it
\* follows the last observation
Anchored(slot_counter, time) ==
    IF /\ observation # None
       /\ index_and_offset(observation[1].slot_counter).index
            = index_and_offset(slot_counter).index
    THEN anchor
    ELSE Some([slot_counter |-> slot_counter, time |-> time])

\* the first observation: SlotClock::new
ObserveFirst(slot_counter, time) ==
    /\ slot_clock = None
    /\ observations < MaxObservations
    /\ observations' = observations + 1
    /\ slot_clock' = SlotClockNew(slot_counter, time)
    /\ clock_call' = Some([op |-> "new", slot_counter |-> slot_counter, time |-> time,
                            before |-> slot_clock])
    /\ IF slot_clock' = None
       THEN UNCHANGED <<observation, anchor>>
       ELSE /\ observation' = Some([slot_counter |-> slot_counter, time |-> time])
            /\ anchor' = observation'
    /\ UNCHANGED <<monotone, observer_clock_vars, link_vars, transport_vars,
                   observer_vars, codec_vars>>

\* a later observation: SlotClock::set
ObserveNext(slot_counter, step) ==
    /\ slot_clock # None
    /\ observations < MaxObservations
    /\ observations' = observations + 1
    /\ LET time == observation[1].time + step
       IN  /\ slot_clock' = Some(set(slot_clock[1], slot_counter, time))
           /\ clock_call' = Some([op |-> "set", slot_counter |-> slot_counter,
                                   time |-> time, before |-> slot_clock])
           /\ IF index_and_offset(slot_counter).tag = "Err"
              THEN UNCHANGED <<observation, anchor, monotone>>
              ELSE /\ observation' = Some([slot_counter |-> slot_counter, time |-> time])
                   /\ anchor' = Anchored(slot_counter, time)
                   /\ monotone' = (monotone /\ step >= 0)
    /\ UNCHANGED <<observer_clock_vars, link_vars, transport_vars, observer_vars,
                   codec_vars>>

---------------------------------------------------------------------------
(* Observer: slot counters captured and observed, and power reports        *)

\* the observer's clocks
Clocks ==
    [captured_slot_counters |-> captured_slot_counters, slot_clocks |-> slot_clocks,
     events |-> events]

\* Observer::gateway_slot_counter_captured at the time given by
\* SystemTime::now()
gateway_slot_counter_captured(o, gateway_id, time) ==
    [o EXCEPT !.captured_slot_counters = Put(@, gateway_id, time)]

\* Observer::gateway_slot_counter_observed reading the capture time and
\* leaving it in place
SlotCounterObservedKeepingCapture(o, gateway_id, slot_counter) ==
    IF ~Has(o.captured_slot_counters, gateway_id) THEN o
    ELSE LET time == o.captured_slot_counters[gateway_id]
         IN  IF ~Has(o.slot_clocks, gateway_id)
             THEN LET clock == SlotClockNew(slot_counter, time)
                  IN  IF clock = None THEN o
                      ELSE [o EXCEPT !.slot_clocks = Put(@, gateway_id, clock[1])]
             ELSE [o EXCEPT !.slot_clocks =
                                Put(@, gateway_id, set(@[gateway_id], slot_counter, time))]

\* Observer::gateway_slot_counter_observed: the capture time is removed, then
\* the clock is made with SlotClock::new or updated with SlotClock::set
gateway_slot_counter_observed(o, gateway_id, slot_counter) ==
    IF ~Has(o.captured_slot_counters, gateway_id) THEN o
    ELSE LET time == o.captured_slot_counters[gateway_id]
             taken == [o EXCEPT !.captured_slot_counters = Remove(@, gateway_id)]
         IN  IF ~Has(o.slot_clocks, gateway_id)
             THEN LET clock == SlotClockNew(slot_counter, time)
                  IN  IF clock = None THEN taken
                      ELSE [taken EXCEPT !.slot_clocks = Put(@, gateway_id, clock[1])]
             ELSE [taken EXCEPT !.slot_clocks =
                                    Put(@, gateway_id, set(@[gateway_id], slot_counter, time))]

\* Observer::gateway
ObserverGateway(id) ==
    [id |-> id,
     address |-> IF Has(persistent_state.gateway_identities, id)
                 THEN Some(persistent_state.gateway_identities[id]) ELSE None]

\* Observer::node
ObserverNode(gateway_id, id) ==
    LET address ==
            IF /\ Has(persistent_state.gateway_node_tables, gateway_id)
               /\ Has(persistent_state.gateway_node_tables[gateway_id], id)
            THEN Some(persistent_state.gateway_node_tables[gateway_id][id]) ELSE None
    IN  [id |-> id, address |-> address, barcode |-> address]

\* Observer::power_report stamping the event with the system time
PowerReportStampedNow(o, gateway_id, pv_node_id, slot_counter) ==
    IF ~Has(o.slot_clocks, gateway_id) THEN o
    ELSE IF index_and_offset(slot_counter).tag = "Err" THEN o
    ELSE [o EXCEPT !.events =
            Append(@, [gateway |-> ObserverGateway(gateway_id),
                       node |-> ObserverNode(gateway_id, pv_node_id),
                       timestamp |-> now])]

\* Observer::power_report with PowerReportEvent::new: the event printed has
\* the gateway, the node and the time of the slot counter; a report without
\* a slot clock or with an invalid slot number is discarded
power_report(o, gateway_id, pv_node_id, slot_counter) ==
    IF ~Has(o.slot_clocks, gateway_id) THEN o
    ELSE IF index_and_offset(slot_counter).tag = "Err" THEN o
    ELSE [o EXCEPT !.events =
            Append(@, [gateway |-> ObserverGateway(gateway_id),
                       node |-> ObserverNode(gateway_id, pv_node_id),
                       timestamp |-> get(o.slot_clocks[gateway_id], slot_counter)])]

\* number of calls on the observer's clocks in a run
MaxClockCalls == 4

ClockGateways == {4609, 4610}
\* slot counters of index 0 and index 1, and an invalid one
ReportCounters == {0, 1000, 12000}
\* the system time from one capture to the next, in milliseconds
CaptureSteps == {5000, -5000}
ReportNodes == {2}

\* the observer's clocks become those of o after the call named
ClocksBecome(o, op, gateway_id, slot_counter) ==
    /\ observations < MaxClockCalls
    /\ observations' = observations + 1
    /\ captured_slot_counters' = o.captured_slot_counters
    /\ slot_clocks' = o.slot_clocks
    /\ events' = o.events
    /\ clock_call' = Some([op |-> op, gateway_id |-> gateway_id,
                           slot_counter |-> slot_counter, before |-> Clocks,
                           pending |-> capture_pending,
                           observer |-> Observer])
    /\ UNCHANGED <<slot_clock, observation, anchor, monotone,
                   link_vars, transport_vars, observer_vars, codec_vars>>

SlotCounterCaptured(gateway_id, step) ==
    /\ now' = now + step
    /\ capture_pending' = capture_pending \cup {gateway_id}
    /\ ClocksBecome(gateway_slot_counter_captured(Clocks, gateway_id, now'),
                    "captured", gateway_id, 0)

SlotCounterObserved(gateway_id, slot_counter) ==
    /\ capture_pending' = capture_pending \ {gateway_id}
    /\ ClocksBecome(gateway_slot_counter_observed(Clocks, gateway_id, slot_counter),
                    "observed", gateway_id, slot_counter)
    /\ UNCHANGED now

PowerReport(gateway_id, pv_node_id, slot_counter) ==
    /\ ClocksBecome(power_report(Clocks, gateway_id, pv_node_id, slot_counter),
                    "power_report", gateway_id, slot_counter)
    /\ UNCHANGED <<now, capture_pending>>

ObserverClockNext ==
    \/ \E g \in ClockGateways, d \in CaptureSteps : SlotCounterCaptured(g, d)
    \/ \E g \in ClockGateways, sc \in ReportCounters : SlotCounterObserved(g, sc)
    \/ \E g \in ClockGateways, n \in ReportNodes, sc \in ReportCounters :
          PowerReport(g, n, sc)

---------------------------------------------------------------------------
(* Codecs                                                                  *)

CodecInit ==
    /\ codec = "none"
    /\ given = None
    /\ encoded = None
    /\ decoded = None

\* the state outside the codec at work
CodecIdle ==
    /\ LinkInit /\ TransportInit /\ ObserverInit /\ ClockInit
    /\ overflow_checks = FALSE

CodecKept == UNCHANGED <<codec, given, link_vars, transport_vars, observer_vars, clock_vars>>

\* escape of the one byte given
EscapeGiven ==
    /\ codec = "escape" /\ encoded = None
    /\ encoded' = Some(escape(<<given>>))
    /\ UNCHANGED decoded
    /\ CodecKept

\* the byte a receiver makes of the escaped bytes: that of unescaped_byte
\* after 0x7E, and the byte itself otherwise
UnescapeEncoded ==
    /\ codec = "escape" /\ encoded # None /\ decoded = None
    /\ decoded' = Some(IF encoded[1][1] = 126 /\ Len(encoded[1]) = 2
                       THEN unescaped_byte(encoded[1][2])
                       ELSE Some(encoded[1][1]))
    /\ UNCHANGED encoded
    /\ CodecKept

\* unescaped_byte of the byte given, as the byte after 0x7E
UnescapeGiven ==
    /\ codec = "unescaped_byte" /\ decoded = None
    /\ decoded' = Some(unescaped_byte(given))
    /\ UNCHANGED encoded
    /\ CodecKept

---------------------------------------------------------------------------
(* barcode::Barcode; a string is the sequence of its bytes                 *)

RECURSIVE BitOr(_, _)
BitOr(a, b) ==
    IF a = 0 THEN b
    ELSE IF b = 0 THEN a
    ELSE (IF a % 2 = 1 \/ b % 2 = 1 THEN 1 ELSE 0) + 2 * BitOr(a \div 2, b \div 2)

\* N2H, *b"0123456789ABCDEF"
N2H(nibble) == IF nibble < 10 THEN 48 + nibble ELSE 55 + nibble
\* C2H, *b"GHJKLMNPRSTVWXYZ"
C2H(nibble) == <<71, 72, 74, 75, 76, 77, 78, 80, 82, 83, 84, 86, 87, 88, 89, 90>>[nibble + 1]

TABLE ==
    <<0, 3, 6, 5, 12, 15, 10, 9, 11, 8, 13, 14, 7, 4, 1, 2,
      5, 6, 3, 0, 9, 10, 15, 12, 14, 13, 8, 11, 2, 1, 4, 7,
      10, 9, 12, 15, 6, 5, 0, 3, 1, 2, 7, 4, 13, 14, 11, 8,
      15, 12, 9, 10, 3, 0, 5, 6, 4, 7, 2, 1, 8, 11, 14, 13,
      7, 4, 1, 2, 11, 8, 13, 14, 12, 15, 10, 9, 0, 3, 6, 5,
      2, 1, 4, 7, 14, 13, 8, 11, 9, 10, 15, 12, 5, 6, 3, 0,
      13, 14, 11, 8, 1, 2, 7, 4, 6, 5, 0, 3, 10, 9, 12, 15,
      8, 11, 14, 13, 4, 7, 2, 1, 3, 0, 5, 6, 15, 12, 9, 10,
      14, 13, 8, 11, 2, 1, 4, 7, 5, 6, 3, 0, 9, 10, 15, 12,
      11, 8, 13, 14, 7, 4, 1, 2, 0, 3, 6, 5, 12, 15, 10, 9,
      4, 7, 2, 1, 8, 11, 14, 13, 15, 12, 9, 10, 3, 0, 5, 6,
      1, 2, 7, 4, 13, 14, 11, 8, 10, 9, 12, 15, 6, 5, 0, 3,
      9, 10, 15, 12, 5, 6, 3, 0, 2, 1, 4, 7, 14, 13, 8, 11,
      12, 15, 10, 9, 0, 3, 6, 5, 7, 4, 1, 2, 11, 8, 13, 14,
      3, 0, 5, 6, 15, 12, 9, 10, 8, 11, 14, 13, 4, 7, 2, 1,
      6, 5, 0, 3, 10, 9, 12, 15, 13, 14, 11, 8, 1, 2, 7, 4>>

\* barcode::crc
barcode_crc(addr) ==
    LET step(c, byte) == TABLE[Xor(byte, (c * 16) % 256) + 1]
        c1 == step(2, addr[1])
        c2 == step(c1, addr[2])
        c3 == step(c2, addr[3])
        c4 == step(c3, addr[4])
        c5 == step(c4, addr[5])
        c6 == step(c5, addr[6])
        c7 == step(c6, addr[7])
        c8 == step(c7, addr[8])
    IN  C2H(c8)

\* {:02X} of a byte
UpperHex(byte) == <<N2H(byte \div 16), N2H(byte % 16)>>

\* Display for LongAddress
LongAddressDisplay(bytes) ==
    UpperHex(bytes[1]) \o <<58>> \o UpperHex(bytes[2]) \o <<58>> \o UpperHex(bytes[3])
    \o <<58>> \o UpperHex(bytes[4]) \o <<58>> \o UpperHex(bytes[5]) \o <<58>>
    \o UpperHex(bytes[6]) \o <<58>> \o UpperHex(bytes[7]) \o <<58>> \o UpperHex(bytes[8])

\* the loop of Display for Barcode over nibbles[i + 1 ..], i counted from 0
RECURSIVE EmitNibbles(_, _, _)
EmitNibbles(nibbles, i, skipping) ==
    IF i >= Len(nibbles) THEN <<>>
    ELSE IF skipping /\ nibbles[i + 1] = 0 /\ i < 10
    THEN EmitNibbles(nibbles, i + 1, TRUE)
    ELSE <<N2H(nibbles[i + 1])>> \o EmitNibbles(nibbles, i + 1, FALSE)

\* Display for Barcode
fmt(bytes) ==
    IF bytes[1] # 4 \/ bytes[2] # 192 \/ bytes[3] # 91
    THEN LongAddressDisplay(bytes)
    ELSE LET nibbles == <<bytes[4] % 16,
                          bytes[5] \div 16, bytes[5] % 16,
                          bytes[6] \div 16, bytes[6] % 16,
                          bytes[7] \div 16, bytes[7] % 16,
                          bytes[8] \div 16, bytes[8] % 16>>
         IN  <<N2H(bytes[4] \div 16), 45>> \o EmitNibbles(nibbles, 0, TRUE)
             \o <<barcode_crc(bytes)>>

\* char::to_digit(16): None for a byte that is no hexadecimal digit
to_digit(c) ==
    IF c \in 48..57 THEN Some(c - 48)
    ELSE IF c \in 65..70 THEN Some(c - 55)
    ELSE IF c \in 97..102 THEN Some(c - 87)
    ELSE None

\* the digits of chars[i..], None when one of them is no digit
RECURSIVE Digits(_, _)
Digits(chars, i) ==
    IF i > Len(chars) THEN Some(<<>>)
    ELSE LET d == to_digit(chars[i])
             rest == Digits(chars, i + 1)
         IN  IF d = None \/ rest = None THEN None ELSE Some(d \o rest[1])

\* digits without the leading zeros
RECURSIVE Significant(_)
Significant(digits) ==
    IF digits # <<>> /\ digits[1] = 0 THEN Significant(Tail(digits)) ELSE digits

\* u64::from_str_radix(chars, 16): None for an error, or the 16 nibbles of
\* the value, the most significant first
from_str_radix(chars) ==
    LET unsigned == IF chars # <<>> /\ chars[1] = 43 THEN Tail(chars) ELSE chars
        digits == Digits(unsigned, 1)
    IN  IF unsigned = <<>> \/ digits = None THEN None
        ELSE IF Len(Significant(digits[1])) > 16 THEN None
        ELSE LET value == Significant(digits[1])
             IN  Some([i \in 1..16 |-> IF i <= 16 - Len(value) THEN 0
                                       ELSE value[i - (16 - Len(value))]])

\* FromStr for Barcode: None for an InvalidBarcodeError, or the address
from_str(s) ==
    IF Len(s) < 2 \/ s[2] # 45 \/ Len(s) < 5 THEN None
    ELSE
    LET leading_nibble == to_digit(s[1])
        checksum == s[Len(s)]
        rest == from_str_radix(SubSeq(s, 3, Len(s) - 1))
        \* (0x04c05b0 | leading_nibble) << 36
        high == <<0, 4, 12, 0, 5, 11, leading_nibble[1], 0, 0, 0, 0, 0, 0, 0, 0, 0>>
        nibbles == [i \in 1..16 |-> BitOr(rest[1][i], high[i])]
        addr == [i \in 1..8 |-> nibbles[2 * i - 1] * 16 + nibbles[2 * i]]
    IN  IF leading_nibble = None \/ rest = None THEN None
        ELSE IF barcode_crc(addr) = checksum THEN Some(addr)
        ELSE None

\* addresses with the prefix 04 C0 5B, from no significant nibble to nine,
\* and one address without the prefix
BarcodeAddresses ==
    { <<4, 192, 91, b3, 0, b5, b6, b7>> :
        b3 \in {0, 64, 79}, b5 \in {0, 154}, b6 \in {0, 87}, b7 \in {0, 1, 16, 162} }
    \cup { <<4, 192, 92, 64, 0, 154, 87, 162>> }

\* Barcode(address).to_string()
FormatBarcode ==
    /\ codec = "barcode" /\ encoded = None
    /\ encoded' = Some(fmt(given))
    /\ UNCHANGED decoded
    /\ CodecKept

\* Barcode::from_str of the formatted barcode
ParseBarcode ==
    /\ codec = "barcode" /\ encoded # None /\ decoded = None
    /\ decoded' = Some(from_str(encoded[1]))
    /\ UNCHANGED encoded
    /\ CodecKept

---------------------------------------------------------------------------
(* capture::Writer and capture::Reader, on the stream inside the gzip      *)
(* wrapper.  A SystemTime is the seconds since the epoch (negative before  *)
(* it) and the nanoseconds of the second.                                  *)

U16_MAX == 65535
\* size_of::<Record>()
RECORD_SIZE == 10

\* u64::to_be_bytes
u64_to_be_bytes(v) ==
    <<0, 0, 0, 0, v \div 16777216, (v \div 65536) % 256, (v \div 256) % 256, v % 256>>

\* u64::from_be_bytes of bytes[i..], after the value acc of the bytes before
RECURSIVE u64_from_be_bytes(_, _, _)
u64_from_be_bytes(bytes, i, acc) ==
    IF i > Len(bytes) THEN acc
    ELSE u64_from_be_bytes(bytes, i + 1, acc * 256 + bytes[i])

\* Record::set_timestamp: the timestamp field, None where unwrap panics
set_timestamp(time) ==
    IF time.secs < 0 THEN None
    ELSE Some(u64_to_be_bytes(time.secs * 1000 + time.nanos \div 1000000))

\* Record::timestamp
timestamp(field) ==
    LET millis == u64_from_be_bytes(field, 1, 0)
    IN  [secs |-> millis \div 1000, nanos |-> (millis % 1000) * 1000000]

\* Writer::write with the data length in little-endian order
WriteLittleEndian(bytes, time) ==
    IF set_timestamp(time) = None THEN [tag |-> "Panic", stream |-> <<>>]
    ELSE [tag |-> "Ok",
          stream |-> to_le_bytes(Len(bytes)) \o set_timestamp(time)[1] \o bytes]

\* Writer::write: the bytes written to the stream, or a panic
RECURSIVE write(_, _)
write(bytes, time) ==
    IF Len(bytes) > U16_MAX
    THEN LET left == write(SubSeq(bytes, 1, U16_MAX), time)
             right == write(SubSeq(bytes, U16_MAX + 1, Len(bytes)), time)
         IN  IF left.tag = "Panic" \/ right.tag = "Panic"
             THEN [tag |-> "Panic", stream |-> <<>>]
             ELSE [tag |-> "Ok", stream |-> left.stream \o right.stream]
    ELSE IF set_timestamp(time) = None THEN [tag |-> "Panic", stream |-> <<>>]
    ELSE [tag |-> "Ok",
          stream |-> to_be_bytes(Len(bytes)) \o set_timestamp(time)[1] \o bytes]

\* Writer::write of each pair of the list from the i-th on
RECURSIVE WriteAll(_, _)
WriteAll(list, i) ==
    IF i > Len(list) THEN [tag |-> "Ok", stream |-> <<>>]
    ELSE LET first == write(list[i].bytes, list[i].timestamp)
             rest == WriteAll(list, i + 1)
         IN  IF first.tag = "Panic" \/ rest.tag = "Panic"
             THEN [tag |-> "Panic", stream |-> <<>>]
             ELSE [tag |-> "Ok", stream |-> first.stream \o rest.stream]

\* Reader::next: None at the end of the stream, or the item and the stream
\* left
reader_next(stream) ==
    IF Len(stream) < RECORD_SIZE THEN None
    ELSE LET data_length == from_be_bytes(stream[1], stream[2])
             after == SubSeq(stream, RECORD_SIZE + 1, Len(stream))
         IN  IF Len(after) < data_length
             THEN Some([item |-> [tag |-> "Err"], stream |-> <<>>])
             ELSE Some([item |-> [tag |-> "Ok",
                                  bytes |-> SubSeq(after, 1, data_length),
                                  timestamp |-> timestamp(SubSeq(stream, 3, RECORD_SIZE))],
                        stream |-> SubSeq(after, data_length + 1, Len(after))])

\* the items of Reader::next until the end of the stream
RECURSIVE ReadAll(_)
ReadAll(stream) ==
    LET n == reader_next(stream)
    IN  IF n = None THEN <<>> ELSE <<n[1].item>> \o ReadAll(n[1].stream)

\* number of pairs in a list
MaxRecords == 2

\* bytes without and with a frame terminator; times at the epoch, between
\* two milliseconds, at a whole millisecond, and before the epoch
CaptureBytes == {<<>>, <<1>>, <<126, 8>>}
CaptureTimes == { [secs |-> 0, nanos |-> 0], [secs |-> 1, nanos |-> 500000],
                  [secs |-> 2000000, nanos |-> 999000000], [secs |-> -1, nanos |-> 0] }
CaptureLists ==
    UNION { [1..n -> [bytes : CaptureBytes, timestamp : CaptureTimes]] : n \in 0..MaxRecords }

\* Writer::write of the pairs given
WriteCapture ==
    /\ codec = "capture" /\ encoded = None
    /\ encoded' = Some(WriteAll(given, 1))
    /\ UNCHANGED decoded
    /\ CodecKept

\* a Reader over the stream written
ReadCapture ==
    /\ codec = "capture" /\ encoded # None /\ decoded = None
    /\ encoded[1].tag = "Ok"
    /\ decoded' = Some(ReadAll(encoded[1].stream))
    /\ UNCHANGED encoded
    /\ CodecKept

---------------------------------------------------------------------------
(* pv::application::U12Pair                                                *)

\* TryFrom<(u16, u16)> for U12Pair without the high nibble of b
U12PairWithoutHighNibble(a, b) ==
    IF a % 4096 # a \/ b % 4096 # b THEN None
    ELSE LET a_bytes == to_be_bytes((a * 16) % 65536)
             b_bytes == to_be_bytes(b)
         IN  Some(<<a_bytes[1], a_bytes[2], b_bytes[2]>>)

\* TryFrom<(u16, u16)> for U12Pair: None for Err(())
U12PairTryFrom(a, b) ==
    IF a % 4096 # a \/ b % 4096 # b THEN None
    ELSE LET a_bytes == to_be_bytes((a * 16) % 65536)
             b_bytes == to_be_bytes(b)
         IN  Some(<<a_bytes[1], BitOr(a_bytes[2], b_bytes[1]), b_bytes[2]>>)

\* From<U12Pair> for (u16, u16)
U12PairInto(value) ==
    <<from_be_bytes(value[1], value[2]) \div 16,
      from_be_bytes(value[2], value[3]) % 4096>>

\* u16 values about the ends of the 12 bits and of their nibbles
U12Values == {0, 1, 15, 16, 255, 256, 344, 694, 3855, 4095, 4096, 65535}

\* U12Pair::try_from of the pair given
EncodeU12Pair ==
    /\ codec = "U12Pair" /\ encoded = None
    /\ encoded' = Some(U12PairTryFrom(given[1], given[2]))
    /\ UNCHANGED decoded
    /\ CodecKept

\* <(u16, u16)>::from of the U12Pair encoded
DecodeU12Pair ==
    /\ codec = "U12Pair" /\ encoded # None /\ decoded = None
    /\ encoded[1] # None
    /\ decoded' = Some(U12PairInto(encoded[1][1]))
    /\ UNCHANGED encoded
    /\ CodecKept

---------------------------------------------------------------------------
(* pv::link::SlotCounter::slots_since                                      *)

\* a u16 operation: the value kept (wrapped to 16 bits when the build does
\* not check overflow) and whether 16 bits were exceeded so far
U16Step(raw, exceeded) ==
    [value |-> raw % 65536, exceeded |-> exceeded \/ raw < 0 \/ raw > 65535]

\* SlotCounter::slots_since answering 0 for equal slot counters
SlotsSinceFromZero(self, past, checks) ==
    LET self_number == slot_number(self)
        past_number == slot_number(past)
    IN  IF self_number.tag = "Err" THEN self_number
        ELSE IF past_number.tag = "Err" THEN past_number
        ELSE LET self_abs_slots == epoch(self) * 12000 + self_number.value
                 past_abs_slots == epoch(past) * 12000 + past_number.value
             IN  [tag |-> "Ok", exceeded |-> FALSE,
                  value |-> IF self_abs_slots >= past_abs_slots
                            THEN self_abs_slots - past_abs_slots
                            ELSE 48000 - past_abs_slots + self_abs_slots]

\* SlotCounter::slots_since, every operation a u16 operation: Ok with the
\* slots, Err for an invalid slot number, Panic when an operation exceeds 16
\* bits in a build that checks overflow
slots_since(self, past, checks) ==
    LET self_number == slot_number(self)
        past_number == slot_number(past)
    IN  IF self_number.tag = "Err" THEN self_number
        ELSE IF past_number.tag = "Err" THEN past_number
        ELSE LET self_product == U16Step(epoch(self) * 12000, FALSE)
                 self_abs_slots == U16Step(self_product.value + self_number.value,
                                           self_product.exceeded)
                 past_product == U16Step(epoch(past) * 12000, self_abs_slots.exceeded)
                 past_abs_slots == U16Step(past_product.value + past_number.value,
                                           past_product.exceeded)
                 expected == U16Step(self_abs_slots.value - past_abs_slots.value,
                                     past_abs_slots.exceeded)
                 remaining == U16Step(48000 - past_abs_slots.value, past_abs_slots.exceeded)
                 wrapped == U16Step(remaining.value + self_abs_slots.value,
                                    remaining.exceeded)
                 slots == IF self_abs_slots.value > past_abs_slots.value
                          THEN expected ELSE wrapped
             IN  IF slots.exceeded /\ checks THEN [tag |-> "Panic", value |-> 0]
                 ELSE [tag |-> "Ok", value |-> slots.value, exceeded |-> slots.exceeded]

\* slot counters of the tests of slots_since, the ends of the valid slot
\* numbers and of the 16 bits
SinceCounters ==
    {0, 128, 256, 11999, 12000, 16383, 16384, 16512, 28383, 32768, 32896,
     49152, 49280, 61151, 65535}

\* slots_since of the pair given, in either build
SlotsSinceGiven ==
    /\ codec = "slots_since" /\ encoded = None
    /\ \E checks \in BOOLEAN : encoded' = Some(slots_since(given[1], given[2], checks))
    /\ UNCHANGED decoded
    /\ CodecKept

InitSlotsSince ==
    /\ CodecIdle
    /\ codec = "slots_since"
    /\ given \in SinceCounters \X SinceCounters
    /\ encoded = None
    /\ decoded = None

SpecSlotsSince == InitSlotsSince /\ [][SlotsSinceGiven]_vars

---------------------------------------------------------------------------
(* Specifications                                                          *)

\* overflow_checks: whether the build checks integer overflow (a debug build)
\* or not (a release build); only the transport receiver depends on it
Init ==
    /\ LinkInit /\ TransportInit /\ ObserverInit /\ ClockInit /\ CodecInit
    /\ overflow_checks = FALSE

InitAnyBuild ==
    /\ LinkInit /\ TransportInit /\ ObserverInit /\ ClockInit /\ CodecInit
    /\ overflow_checks \in BOOLEAN

\* the link receiver fed single bytes, fillers and encoded frames
Next ==
    \/ \E b \in Alphabet : ExtendFromSlice(<<b>>)
    \/ \E s \in FillerSlices : ExtendFromSlice(s)
    \/ \E f \in LinkFrames : ExtendFromEncoded(f)
    \/ PushNext

Spec == Init /\ [][Next]_vars

\* a new link receiver fed one encoded frame
RoundTripNext ==
    \/ \E f \in RoundTripFrames : calls = 0 /\ ExtendFromEncoded(f)
    \/ PushNext

SpecRoundTrip == Init /\ [][RoundTripNext]_vars

\* the transport receiver given frames
TransportNext == \E f \in TransportFrames : TransportFrame(f)

SpecTransport == InitAnyBuild /\ [][TransportNext]_vars

\* the transport receiver given receive requests and receive responses that
\* hold the low byte of the packet number
PacketNumberNext ==
    \/ \E f \in ExpectationFrames : TransportFrame(f)
    \/ \E f \in LowByteFrames : TransportFrame(f)

SpecPacketNumber == InitAnyBuild /\ [][PacketNumberNext]_vars

\* the transport receiver given command frames among frames of other kinds
CommandNext == \E f \in CommandFrames : TransportFrame(f)

SpecCommands == Init /\ [][CommandNext]_vars

\* the transport receiver given the command frames of one gateway
ExchangeNext == \E f \in ExchangeFrames : ExchangeFrame(f)

SpecExchange == Init /\ [][ExchangeNext]_vars

\* the observer during enumerations
EnumerationNext ==
    \/ \E e \in EnumerationIDs : EnumerationStarted(e)
    \/ \E g \in ObserverGateways, a \in LongAddresses : GatewayIdentityObserved(g, a)
    \/ \E g \in ObserverGateways, v \in Versions : GatewayVersionObserved(g, v)
    \/ \E g \in ObserverGateways : EnumerationEnded(g)

SpecEnumeration == Init /\ [][EnumerationNext]_vars

\* the observer given node table pages
NodeTableNext ==
    \E g \in NodeTableGateways, a \in StartAddresses, p \in Pages : NodeTablePage(g, a, p)

SpecNodeTable == Init /\ [][NodeTableNext]_vars

\* the entry of PageEntries with the node address
EntryOf(node_id) == CHOOSE e \in PageEntries : e.node_id = node_id

\* pages: the terminator, two entries in both orders, an entry before one
\* with node address 0, and the greatest node address
SamplePages ==
    { <<>>, <<EntryOf(1), EntryOf(2)>>, <<EntryOf(2), EntryOf(1)>>,
      <<EntryOf(1), EntryOf(0)>>, <<EntryOf(65535)>> }

\* the observer given pages of these kinds
PageSequenceNext ==
    \E g \in NodeTableGateways, a \in StartAddresses, p \in SamplePages :
        NodeTablePage(g, a, p)

SpecPageSequence == Init /\ [][PageSequenceNext]_vars

\* the gateway whose persistent state is followed through every callback
CommitGateways == {4609}
CommitStartAddresses == {0, 2}
CommitPages == {<<>>, <<[long_address |-> <<4, 192, 91, 64, 0, 162, 52, 111>>,
                        node_id |-> 1]>>}

\* the observer given the callbacks that reach its persistent state
ObserverNext ==
    \/ \E e \in EnumerationIDs : EnumerationStarted(e)
    \/ \E g \in CommitGateways, a \in LongAddresses : GatewayIdentityObserved(g, a)
    \/ \E g \in CommitGateways, v \in Versions : GatewayVersionObserved(g, v)
    \/ \E e \in EnumerationIDs : EnumerationEnded(e)
    \/ \E g \in CommitGateways, a \in CommitStartAddresses, p \in CommitPages :
            NodeTablePage(g, a, p)

SpecObserver == Init /\ [][ObserverNext]_vars

\* a slot clock given observations
SlotClockNext ==
    \/ \E sc \in SlotCounters, t \in StartTimes : ObserveFirst(sc, t)
    \/ \E sc \in SlotCounters, d \in TimeSteps : ObserveNext(sc, d)

SpecSlotClock == Init /\ [][SlotClockNext]_vars

\* the observer given captures, observations and power reports
SpecObserverClock == Init /\ [][ObserverClockNext]_vars

\* escape and unescaped_byte given every byte
InitEscaping ==
    /\ CodecIdle
    /\ codec \in {"escape", "unescaped_byte"}
    /\ given \in Byte
    /\ encoded = None
    /\ decoded = None

EscapingNext == EscapeGiven \/ UnescapeEncoded \/ UnescapeGiven

SpecEscaping == InitEscaping /\ [][EscapingNext]_vars

\* addresses formatted as barcodes and parsed back
InitBarcode ==
    /\ CodecIdle
    /\ codec = "barcode"
    /\ given \in BarcodeAddresses
    /\ encoded = None
    /\ decoded = None

BarcodeNext == FormatBarcode \/ ParseBarcode

SpecBarcode == InitBarcode /\ [][BarcodeNext]_vars

\* lists of pairs written to a capture and read back
InitCapture ==
    /\ CodecIdle
    /\ codec = "capture"
    /\ given \in CaptureLists
    /\ encoded = None
    /\ decoded = None

CaptureNext == WriteCapture \/ ReadCapture

SpecCapture == InitCapture /\ [][CaptureNext]_vars

\* pairs of u16 encoded as U12Pair and decoded
InitU12Pair ==
    /\ CodecIdle
    /\ codec = "U12Pair"
    /\ given \in U12Values \X U12Values
    /\ encoded = None
    /\ decoded = None

U12PairNext == EncodeU12Pair \/ DecodeU12Pair

SpecU12Pair == InitU12Pair /\ [][U12PairNext]_vars

---------------------------------------------------------------------------
(* Properties of the link receiver                                         *)

\* the one encoded frame has been pushed to its last byte
RoundTripDone == fed_frame # None /\ calls = 1 /\ pending = <<>>

\* C1: frame round trip.  A new receiver fed Frame::encode(f) delivers
\* exactly f to the sink, counts one frame and nothing else, and is left
\* Idle with an empty buffer.
FrameRoundTrip ==
    RoundTripDone =>
        /\ sink = <<fed_frame[1]>>
        /\ counters = [NoCounters EXCEPT !.frames = 1]
        /\ state = "Idle"
        /\ buffer = <<>>

\* a round trip of a frame with the longest payload, every byte of it escaped
FrameRoundTripWitness ==
    /\ RoundTripDone
    /\ Len(fed_frame[1].payload) = MAX_FRAME_SIZE - 6
    /\ fed_frame[1].payload[1] = 126
    /\ fed_frame[1].address.dir = "To"
    /\ sink = <<fed_frame[1]>>

\* C3, as the specification states it: frames + runts + giants + checksums
\* equals the number of terminators (0x7E 0x08) that ended a frame or a giant.
CounterConservation ==
    counters.frames + counters.runts + counters.giants + counters.checksums
        = terminators.frame + terminators.giant

\* C3, amended: frames + runts + checksums equals the number of terminators
\* that ended a frame (0x08 pushed in FrameEscape); giants are counted when
\* the buffer overflows, not at a terminator.
FrameTerminatorConservation ==
    counters.frames + counters.runts + counters.checksums = terminators.frame

\* a frame, a checksum failure and a giant have all been counted
FrameTerminatorConservationWitness ==
    /\ counters.frames >= 1
    /\ counters.checksums >= 1
    /\ counters.giants >= 1
    /\ terminators.frame >= 2

\* C4: giant counting.  Every frame whose body overflowed the buffer, by a
\* data byte or by an escaped byte, has been counted as one giant.
GiantCounting == counters.giants = overlong_frames

\* C5: FSM conformance.  After each byte the receiver's state is the state
\* the specification's transition table gives for the same bytes.
TableConformance == state = table_state

\* C6: noise counting.  The noise counter equals the number of transitions
\* into Noise from another state.
NoiseCounting == counters.noise = noise_entries

\* two bursts of noise, the second still going on after the last call
NoiseCountingWitness ==
    /\ counters.noise = 2
    /\ state = "Noise"
    /\ calls = MaxCalls
    /\ pending = <<>>

\* C7: bounded buffering.  The buffer holds at most MAX_FRAME_SIZE bytes and
\* every delivered frame has a payload of at most MAX_FRAME_SIZE - 6 bytes.
BoundedBuffering ==
    /\ Len(buffer) <= MAX_FRAME_SIZE
    /\ \A i \in 1..Len(sink) : Len(sink[i].payload) <= MAX_FRAME_SIZE - 6

\* the buffer is full, after a frame with the longest payload was delivered
BoundedBufferingWitness ==
    /\ Len(buffer) = MAX_FRAME_SIZE
    /\ \E i \in 1..Len(sink) : Len(sink[i].payload) = MAX_FRAME_SIZE - 6

---------------------------------------------------------------------------
(* Properties of the transport receiver                                    *)

\* C2: no crash path.  No frame makes the transport receiver panic.
NoCrashPath == ~panicked

\* the last frame had this type and direction and a payload of at least
\* size bytes
LastFrameWas(frame_type, dir, size) ==
    /\ last_frame # None
    /\ last_frame[1].frame_type = frame_type
    /\ last_frame[1].address.dir = dir
    /\ Len(last_frame[1].payload) >= size

\* C11: command pairing.  A command response from gw with sequence s removes
\* the entry pending under (gw, s) and notifies command_executed once, with
\* the stored request and the response's type and tail; with no entry
\* pending it is counted as retransmitted and notifies nothing.
CommandPairing ==
    LastFrameWas(COMMAND_RESPONSE, "From", 5) =>
        LET f == last_frame[1]
            key == <<f.address.id, f.payload[5]>>
            awaiting == before_frame.commands_awaiting_response
        IN  IF key \in DOMAIN awaiting
            THEN /\ commands_awaiting_response = [k \in DOMAIN awaiting \ {key} |-> awaiting[k]]
                 /\ notifications =
                        Append(before_frame.sink,
                               [call |-> "command_executed", gateway_id |-> f.address.id,
                                request |-> awaiting[key],
                                response |-> [packet_type |-> f.payload[4],
                                              payload |-> SubSeq(f.payload, 6,
                                                                 Len(f.payload))]])
                 /\ transport_counters.retransmitted_command_responses
                        = before_frame.counters.retransmitted_command_responses
            ELSE /\ commands_awaiting_response = awaiting
                 /\ notifications = before_frame.sink
                 /\ transport_counters.retransmitted_command_responses
                        = before_frame.counters.retransmitted_command_responses + 1

\* a node table request was answered, and the answer came a second time
CommandPairingWitness ==
    /\ LastFrameWas(COMMAND_RESPONSE, "From", 5)
    /\ transport_counters.command_responses = 1
    /\ transport_counters.retransmitted_command_responses = 1
    /\ Len(notifications) = 1
    /\ notifications[1].call = "command_executed"
    /\ notifications[1].request = [packet_type |-> 38, payload |-> <<65>>]
    /\ notifications[1].response = [packet_type |-> 7, payload |-> <<66>>]

\* C12: retransmitted command request.  A command request with the sequence
\* number last seen for its gateway is counted as retransmitted, not as a
\* command request, and leaves the pending commands as they were.
RetransmittedRequest ==
    LET f == last_frame[1]
        seen == before_frame.command_sequence_numbers
    IN  ( /\ LastFrameWas(COMMAND_REQUEST, "To", 5)
          /\ Has(seen, f.address.id)
          /\ seen[f.address.id] = f.payload[5] ) =>
            /\ transport_counters.retransmitted_command_requests
                   = before_frame.counters.retransmitted_command_requests + 1
            /\ transport_counters.command_requests = before_frame.counters.command_requests
            /\ commands_awaiting_response = before_frame.commands_awaiting_response

\* C13: packet-number reconstruction.  A receive response holding the low
\* byte lo, decoded against the expectation e, leaves as the expectation the
\* number with low byte lo and high byte hi(e) when lo >= lo(e), and
\* (hi(e) + 1) mod 256 otherwise.
PacketNumberReconstruction ==
    LET f == last_frame[1]
        expected == before_frame.rx_packet_numbers
    IN  ( /\ LastFrameWas(RECEIVE_RESPONSE, "From", 5)
          /\ f.payload[1] = 0 /\ f.payload[2] = 255
          /\ Has(expected, f.address.id) ) =>
            LET e == expected[f.address.id]
                lo == f.payload[3]
                hi == IF lo >= e % 256 THEN e \div 256 ELSE ((e \div 256) + 1) % 256
            IN  /\ ~panicked
                /\ rx_packet_numbers[f.address.id] = hi * 256 + lo

\* the number of command_executed notifications among the first n
RECURSIVE Executed(_)
Executed(n) ==
    IF n = 0 THEN 0
    ELSE Executed(n - 1) + (IF notifications[n].call = "command_executed" THEN 1 ELSE 0)

\* C21: retransmission suppression end to end.  command_executed is notified
\* at most once for each command request that was not a retransmission: the
\* notifications of command_executed are no more than the command requests
\* counted as not retransmitted.
RetransmissionSuppression ==
    Executed(Len(notifications)) <= transport_counters.command_requests

\* the notifications of the last frame
NewNotifications ==
    SubSeq(notifications, Len(before_frame.sink) + 1, Len(notifications))

\* the bytes of the packets notified from the i-th notification on
RECURSIVE PacketBytes(_, _)
PacketBytes(ns, i) ==
    IF i > Len(ns) THEN <<>>
    ELSE ns[i].header \o ns[i].data \o PacketBytes(ns, i + 1)

\* C14: event ordering.  The notifications of a frame are appended to those
\* of the frames before it, which stay as they were; those of a receive
\* response are gateway_slot_counter_observed, then packet_received for each
\* packet in the order of the payload.
EventOrdering ==
    last_frame # None =>
        /\ Len(notifications) >= Len(before_frame.sink)
        /\ SubSeq(notifications, 1, Len(before_frame.sink)) = before_frame.sink
        /\ transport_counters.receive_responses > before_frame.counters.receive_responses =>
              LET f == last_frame[1]
                  new == NewNotifications
                  packets == read_from_bytes(f.payload,
                                             before_frame.rx_packet_numbers[f.address.id],
                                             overflow_checks).rest
              IN  /\ new # <<>>
                  /\ new[1].call = "gateway_slot_counter_observed"
                  /\ \A i \in 2..Len(new) : new[i].call = "packet_received"
                  /\ Len(new) - 1 = transport_counters.receive_packets
                                      - before_frame.counters.receive_packets
                  /\ PacketBytes(new, 2) = SubSeq(packets, 1, Len(PacketBytes(new, 2)))

\* a receive response with two packets, after frames that notified
EventOrderingWitness ==
    /\ last_frame # None
    /\ transport_counters.receive_responses > before_frame.counters.receive_responses
    /\ Len(before_frame.sink) = 2
    /\ before_frame.sink[1].call = "enumeration_started"
    /\ Len(NewNotifications) = 3
    /\ NewNotifications[2].data = <<170, 187>>
    /\ NewNotifications[3].header = <<49, 0, 3, 0, 4, 6, 0>>

---------------------------------------------------------------------------
(* Properties of the observer                                              *)

\* the last callback was made during an enumeration
DuringEnumeration == before_call.enumeration_state # None

\* C8: enumeration atomicity.  A callback made during an enumeration, other
\* than enumeration_ended, leaves the persistent identities and versions
\* as they were.
EnumerationAtomicity ==
    (DuringEnumeration /\ last_call # "enumeration_ended") =>
        /\ persistent_state.gateway_identities = before_call.gateway_identities
        /\ persistent_state.gateway_versions = before_call.gateway_versions

\* an identity observed during an enumeration is held in the transient
\* state, beside persistent identities that do not have it
EnumerationAtomicityWitness ==
    /\ DuringEnumeration
    /\ last_call = "gateway_identity_observed"
    /\ Has(enumeration_state[1].gateway_identities, 4610)
    /\ Has(persistent_state.gateway_identities, 4609)
    /\ ~Has(persistent_state.gateway_identities, 4610)

\* C9: enumeration commit.  enumeration_ended during an enumeration makes
\* the persistent identities and versions the transient maps, and drops the
\* transient state.
EnumerationCommit ==
    (DuringEnumeration /\ last_call = "enumeration_ended") =>
        /\ persistent_state.gateway_identities
              = before_call.enumeration_state[1].gateway_identities
        /\ persistent_state.gateway_versions
              = before_call.enumeration_state[1].gateway_versions
        /\ enumeration_state = None

\* an enumeration ended that had observed 4610 and not 4609, which was
\* persistent before: 4609 is gone
EnumerationCommitWitness ==
    /\ DuringEnumeration
    /\ last_call = "enumeration_ended"
    /\ Has(before_call.gateway_identities, 4609)
    /\ Has(before_call.gateway_versions, 4609)
    /\ DOMAIN persistent_state.gateway_identities = {4610}
    /\ DOMAIN persistent_state.gateway_versions = {4610}

\* C10: node-table commit safety.  A table is committed only by the empty
\* page that ends a sequence of pages begun at start address 0, each page
\* starting at the previous page's last node address + 1.
CommitSafety == committed => chain_done

\* C26: enumeration-address filtering.  During an enumeration started with
\* the id E an identity observed for E is not recorded and an identity
\* observed for any other gateway is; after the enumeration_ended that ends
\* it the persistent identities have no entry for E.
EnumerationAddressFiltering ==
    DuringEnumeration =>
        LET E == before_call.enumeration_state[1].enumeration_gateway_id
            transient == before_call.enumeration_state[1].gateway_identities
        IN  /\ last_call = "gateway_identity_observed" =>
                  enumeration_state[1].gateway_identities
                    = IF last_identity[1].gateway_id = E THEN transient
                      ELSE [g \in DOMAIN transient \cup {last_identity[1].gateway_id} |->
                              IF g = last_identity[1].gateway_id
                              THEN last_identity[1].address ELSE transient[g]]
            /\ last_call = "enumeration_ended" =>
                  E \notin DOMAIN persistent_state.gateway_identities

\* an enumeration ended that left the identity of 4609 and none for its id
\* 4661, which was persistent before
EnumerationAddressFilteringWitness ==
    /\ DuringEnumeration
    /\ last_call = "enumeration_ended"
    /\ before_call.enumeration_state[1].enumeration_gateway_id = 4661
    /\ Has(before_call.gateway_identities, 4661)
    /\ DOMAIN persistent_state.gateway_identities = {4609}

\* the builder of the gateway of the last page, after the page
BuilderNow == node_table_builders[before_page[1].gateway_id]

\* the last page did not start at the address the builder expected
StartMismatch ==
    NodeAddressFrom(before_page[1].builder.expected_next) # before_page[1].start_address

\* the node addresses of the entries of the last page
PageNodeIds == {last_page[1][i].node_id : i \in 1..Len(last_page[1])}

\* C22: node-table page start check.  A page that does not start at the
\* address expected resets the builder; if it does not start at 0 it is
\* ignored: nothing inserted, nothing committed; if it starts at 0 it is
\* taken as the first page of a new table, which then holds its entries.
PageStartCheck ==
    (before_page # None /\ StartMismatch) =>
        IF before_page[1].start_address # 0
        THEN /\ BuilderNow = NewBuilder
             /\ ~committed
             /\ persistent_state.gateway_node_tables = before_node_tables
        ELSE (last_page[1] # <<>> /\ PageNodeIds \subseteq 1..65534) =>
                DOMAIN BuilderNow.table = PageNodeIds

\* C23: node-table abort on node address 0.  After a page with an entry
\* whose node address is 0, no table was returned and the builder is empty
\* and expects nothing.
AbortOnZero ==
    (before_page # None /\ 0 \in PageNodeIds) =>
        /\ ~committed
        /\ BuilderNow = NewBuilder

\* C24: node-table continuation.  After a non-empty page that started at
\* the address expected and whose entries all have node addresses other than
\* 0, the builder expects the node address of the last entry of the page
\* plus 1.
Continuation ==
    (/\ before_page # None /\ ~StartMismatch
     /\ last_page[1] # <<>> /\ PageNodeIds \subseteq 1..65534) =>
        BuilderNow.expected_next = Some(last_page[1][Len(last_page[1])].node_id + 1)

\* C25: node-table terminator.  An empty page that starts at the address
\* expected returns the table of the builder, which is left empty and
\* expecting nothing; the table becomes the persistent node table of the
\* gateway, and the node tables of the other gateways stay as they were.
Terminator ==
    (before_page # None /\ ~StartMismatch /\ last_page[1] = <<>>) =>
        /\ committed
        /\ BuilderNow = NewBuilder
        /\ DOMAIN persistent_state.gateway_node_tables
              = DOMAIN before_node_tables \cup {before_page[1].gateway_id}
        /\ \A g \in DOMAIN persistent_state.gateway_node_tables :
              persistent_state.gateway_node_tables[g]
                = IF g = before_page[1].gateway_id THEN before_page[1].builder.table
                  ELSE before_node_tables[g]

\* the table of two entries of gateway 4609 committed by a terminator that
\* starts at 3, beside the table of gateway 4610
TerminatorWitness ==
    /\ before_page # None /\ ~StartMismatch /\ last_page[1] = <<>>
    /\ before_page[1].gateway_id = 4609
    /\ before_page[1].start_address = 3
    /\ DOMAIN persistent_state.gateway_node_tables = {4609, 4610}
    /\ DOMAIN persistent_state.gateway_node_tables[4609] = {1, 2}
    /\ Has(before_node_tables, 4610)

\* the persistent state was changed by the last callback
IdentitiesChanged == persistent_state.gateway_identities # before_call.gateway_identities
VersionsChanged == persistent_state.gateway_versions # before_call.gateway_versions
NodeTablesChanged == persistent_state.gateway_node_tables # before_node_tables

\* C15: commit points.  The persistent identities, versions and node tables
\* change only during enumeration_ended or a node_table_page whose page is
\* empty.
CommitPoints ==
    (IdentitiesChanged \/ VersionsChanged \/ NodeTablesChanged) =>
        \/ last_call = "enumeration_ended"
        \/ last_call = "node_table_page" /\ last_page = Some(<<>>)

\* C15 amended: the persistent identities change only during an
\* enumeration_ended that ends an enumeration or a gateway_identity_observed
\* outside an enumeration, the persistent versions only during such an
\* enumeration_ended or a gateway_version_observed outside an enumeration,
\* and the node tables only during a node_table_page whose page is empty.
CommitPointsOutsideEnumeration ==
    /\ IdentitiesChanged =>
          \/ last_call = "enumeration_ended" /\ DuringEnumeration
          \/ last_call = "gateway_identity_observed" /\ ~DuringEnumeration
    /\ VersionsChanged =>
          \/ last_call = "enumeration_ended" /\ DuringEnumeration
          \/ last_call = "gateway_version_observed" /\ ~DuringEnumeration
    /\ NodeTablesChanged =>
          last_call = "node_table_page" /\ last_page = Some(<<>>)

\* an identity observed outside an enumeration has changed the persistent
\* identities, after a node table and an enumeration were committed
CommitPointsWitness ==
    /\ last_call = "gateway_identity_observed"
    /\ ~DuringEnumeration
    /\ IdentitiesChanged
    /\ Has(before_call.gateway_identities, 4609)
    /\ Has(persistent_state.gateway_node_tables, 4609)

---------------------------------------------------------------------------
(* Properties of the slot clock                                            *)

\* the clock's time for the slot counter of the last observation
ClockTime == get(slot_clock[1], observation[1].slot_counter)

\* the offset of the slot counter in its index, in milliseconds
OffsetOf(slot_counter) == index_and_offset(slot_counter).offset

\* C16: slot-clock accuracy.  After each observation of a sequence whose
\* times never go backwards, the clock's time for the slot counter observed
\* is within 5 s of the time observed.
SlotClockAccuracy ==
    (observation # None /\ monotone) =>
        /\ ClockTime - observation[1].time <= 5000
        /\ observation[1].time - ClockTime <= 5000

\* C16 amended: after each observation of a sequence whose times never go
\* backwards, the clock's time for the slot counter observed is the time of
\* the observation that anchors its index (the first of the latest run of
\* observations in that index) moved by the difference of the two offsets;
\* it is the time observed when the observation is its own anchor.
SlotClockAnchored ==
    (observation # None /\ monotone) =>
        /\ ClockTime = anchor[1].time - OffsetOf(anchor[1].slot_counter)
                        + OffsetOf(observation[1].slot_counter)
        /\ anchor = observation => ClockTime = observation[1].time

\* three observations: index 0, then index 1, then index 1 again four
\* minutes later, for which the clock has the time of the second
SlotClockAnchoredWitness ==
    /\ observations = 3
    /\ monotone
    /\ observation # None /\ observation[1] = [slot_counter |-> 1000, time |-> 545000]
    /\ anchor # None /\ anchor[1] = [slot_counter |-> 1000, time |-> 305000]
    /\ slot_clock[1].times[0] = 300000 - 4995
    /\ ClockTime = 305000

---------------------------------------------------------------------------
(* Properties of the codecs                                                *)

\* the bytes that escape replaces
EmitEligible == {126, 35, 36, 37, 163, 164, 165}

\* C17: escaping bijection.  escape makes of an emit-eligible byte 0x7E and
\* a code in 00..06 that unescaped_byte turns back into the byte, and of any
\* other byte the byte alone; unescaped_byte turns each code in 00..06 into
\* an emit-eligible byte that escape gives that code, and rejects every
\* other code.
EscapingBijection ==
    /\ (codec = "escape" /\ encoded # None) =>
          IF given \in EmitEligible
          THEN /\ Len(encoded[1]) = 2
               /\ encoded[1][1] = 126
               /\ encoded[1][2] \in 0..6
               /\ decoded # None => decoded[1] = Some(given)
          ELSE /\ encoded[1] = <<given>>
               /\ decoded # None => decoded[1] = Some(given)
    /\ (codec = "unescaped_byte" /\ decoded # None) =>
          IF given \in 0..6
          THEN /\ decoded[1] # None
               /\ decoded[1][1] \in EmitEligible
               /\ escape(<<decoded[1][1]>>) = <<126, given>>
          ELSE decoded[1] = None

\* 0xA5 escaped as 7E 06 and unescaped
EscapingBijectionWitness ==
    /\ codec = "escape"
    /\ given = 165
    /\ encoded = Some(<<126, 6>>)
    /\ decoded = Some(Some(165))

\* C18: barcode round trip from address.  Parsing the barcode formatted
\* from an address whose first three bytes are 04 C0 5B succeeds and returns
\* the address.
BarcodeRoundTrip ==
    (codec = "barcode" /\ decoded # None /\ SubSeq(given, 1, 3) = <<4, 192, 91>>) =>
        decoded[1] = Some(given)

\* the pairs given, as items read
AsRead(list) ==
    [i \in 1..Len(list) |->
        [tag |-> "Ok", bytes |-> list[i].bytes, timestamp |-> list[i].timestamp]]

\* a SystemTime without the part of it below a millisecond
WholeMillis(time) == [time EXCEPT !.nanos = (@ \div 1000000) * 1000000]

U12PairRoundTrip ==
    (codec = "U12Pair" /\ encoded # None) =>
        IF given[1] <= 4095 /\ given[2] <= 4095
        THEN /\ encoded[1] # None
             /\ LET bytes == encoded[1][1]
                IN  /\ Len(bytes) = 3
                    /\ \A i \in 1..3 : bytes[i] \in Byte
                    /\ given[1] = bytes[1] * 16 + bytes[2] \div 16
                    /\ given[2] = (bytes[2] % 16) * 256 + bytes[3]
             /\ decoded # None => decoded[1] = given
        ELSE encoded[1] = None

\* (0x2B6, 0x158) encoded as 2B 61 58 and decoded
U12PairRoundTripWitness ==
    /\ codec = "U12Pair"
    /\ given = <<694, 344>>
    /\ encoded = Some(Some(<<43, 97, 88>>))
    /\ decoded = Some(<<694, 344>>)

---------------------------------------------------------------------------
(* Receive responses: expectation and shape                                *)

\* the bytes a receive response of this status type holds before its inline
\* packets: the status, the fields whose bit is clear, the packet number and
\* the slot counter
ShapeLength(status_type) ==
    2 + (IF BitSet(status_type, 1) THEN 0 ELSE 1)
      + (IF BitSet(status_type, 2) THEN 0 ELSE 1)
      + (IF BitSet(status_type, 4) THEN 0 ELSE 2)
      + (IF BitSet(status_type, 8) THEN 0 ELSE 2)
      + (IF BitSet(status_type, 16) THEN 1 ELSE 2)
      + 2

\* status & 0xFFE0 == 0x00E0
StatusAccepted(status_type) == status_type - (status_type % 32) = 224

\* a payload with a bad status mask, or too short for its status
FailsToDecode(bytes) ==
    \/ Len(bytes) < 5
    \/ ~StatusAccepted(from_be_bytes(bytes[1], bytes[2]))
    \/ Len(bytes) < ShapeLength(from_be_bytes(bytes[1], bytes[2]))

\* the last frame was a receive response from a gateway
ReceiveResponseHandled ==
    /\ last_frame # None
    /\ last_frame[1].frame_type = RECEIVE_RESPONSE
    /\ last_frame[1].address.dir = "From"

\* C27: receive response without expectation.  A receive response from a
\* gateway with no stored expectation increments
\* receive_response_from_unknown_gateway, notifies nothing and creates no
\* expectation; one that fails to decode (bad status mask, too short)
\* increments invalid_receive_responses, notifies nothing and leaves the
\* stored expectation unchanged.
ReceiveResponseWithoutExpectation ==
    ReceiveResponseHandled =>
        LET gateway_id == last_frame[1].address.id
            before == before_frame
        IN  /\ ~Has(before.rx_packet_numbers, gateway_id) =>
                  /\ transport_counters =
                        Bump(before.counters, "receive_response_from_unknown_gateway")
                  /\ notifications = before.sink
                  /\ rx_packet_numbers = before.rx_packet_numbers
            /\ (/\ Has(before.rx_packet_numbers, gateway_id)
                /\ FailsToDecode(last_frame[1].payload)) =>
                  /\ transport_counters = Bump(before.counters, "invalid_receive_responses")
                  /\ notifications = before.sink
                  /\ rx_packet_numbers = before.rx_packet_numbers


\* receive response payloads: those of the transport receiver cut at every
\* length, and one of every accepted status type, long enough for all its
\* fields and one more byte
ShapePayloads ==
    ResponsePayloads
    \cup {<<0, s, 17, 18, 19, 20, 21, 22, 23, 24, 25, 26, 27>> : s \in 224..255}

\* the packet numbers expected before the response
ShapeExpectations == {0, 16635, 65534}

\* ReceiveResponse::read_from_bytes of the payload given; the build may or
\* may not check overflow
DecodeReceiveResponse ==
    /\ codec = "receive_response" /\ decoded = None
    /\ \E checks \in BOOLEAN :
          decoded' = Some(read_from_bytes(given.bytes, given.packet_number, checks))
    /\ UNCHANGED encoded
    /\ CodecKept

InitReceiveResponse ==
    /\ CodecIdle
    /\ codec = "receive_response"
    /\ given \in [bytes : ShapePayloads, packet_number : ShapeExpectations]
    /\ encoded = None
    /\ decoded = None

SpecReceiveResponse == InitReceiveResponse /\ [][DecodeReceiveResponse]_vars

\* C28: receive-response shape.  A payload is rejected unless its status has
\* 0x00E0 under the mask 0xFFE0.  In an accepted payload the status is
\* followed, in this order, by rx_buffers_used (1 byte), tx_buffers_free (1),
\* unknown_a (2) and unknown_b (2), each present iff its bit 0x01, 0x02,
\* 0x04, 0x08 is clear (an absent field is None, the empty sequence); then
\* the packet number, 2 bytes iff bit 0x10 is clear and its low byte
\* otherwise; then the 2 bytes of the slot counter; all the bytes left are
\* the inline packets.
ReceiveResponseShape ==
    (codec = "receive_response" /\ decoded # None) =>
        LET bytes == given.bytes
            r == decoded[1]
            status_type == from_be_bytes(bytes[1], bytes[2])
            Width(mask, n) == IF BitSet(status_type, mask) THEN 0 ELSE n
            Field(o, n) == SubSeq(bytes, o + 1, o + n)
            a == 2
            b == a + Width(1, 1)
            c == b + Width(2, 1)
            d == c + Width(4, 2)
            e == d + Width(8, 2)
            f == e + (IF BitSet(status_type, 16) THEN 1 ELSE 2)
        IN  /\ (Len(bytes) >= 2 /\ ~StatusAccepted(status_type)) => r.tag = "Err"
            /\ r.tag = "Ok" =>
                  /\ StatusAccepted(status_type)
                  /\ r.rx_buffers_used = Field(a, Width(1, 1))
                  /\ r.tx_buffers_free = Field(b, Width(2, 1))
                  /\ r.unknown_1 = Field(c, Width(4, 2))
                  /\ r.unknown_2 = Field(d, Width(8, 2))
                  /\ IF BitSet(status_type, 16)
                     THEN r.packet_number % 256 = bytes[e + 1]
                     ELSE r.packet_number = from_be_bytes(bytes[e + 1], bytes[e + 2])
                  /\ r.slot_counter = from_be_bytes(bytes[f + 1], bytes[f + 2])
                  /\ r.rest = Drop(bytes, f + 2)

\* status 0x00FE with rx_buffers_used 02, the low byte FF against the
\* expectation 0x40FB giving 0x40FF, slot counter 0x2122, inline packets 04
ReceiveResponseShapeWitness ==
    /\ codec = "receive_response"
    /\ given = [bytes |-> <<0, 254, 2, 255, 33, 34, 4>>, packet_number |-> 16635]
    /\ decoded # None
    /\ decoded[1].tag = "Ok"
    /\ decoded[1].rx_buffers_used = <<2>>
    /\ decoded[1].tx_buffers_free = None
    /\ decoded[1].packet_number = 16639
    /\ decoded[1].slot_counter = 8482
    /\ decoded[1].rest = <<4>>

---------------------------------------------------------------------------
(* Properties of the slot clock: construction and update                   *)

\* epoch * 12000 + slot_number, of a valid slot counter
AbsoluteSlot(slot_counter) ==
    epoch(slot_counter) * 12000 + slot_number(slot_counter).value

\* the 1000-slot index of a valid slot counter
IndexOf(slot_counter) == index_and_offset(slot_counter).index

\* valid slot counters asked of the clock: the first and the last of all,
\* the ends of an index, of an epoch and of the indices about them
ProbeCounters ==
    {0, 1, 999, 1000, 1999, 2000, 5500, 11000, 11999,
     16384, 17383, 17384, 28383, 32768, 44767, 49152, 60151, 60152, 61151}

\* C29: slot-clock construction.  SlotClock::new(sc, t) fails when the slot
\* number of sc is 12000 or more; otherwise the clock made has get(sc) = t
\* and, for every valid sc' in another 1000-slot index,
\* get(sc') = t - 5 ms * ((abs(sc) - abs(sc')) mod 48000).
SlotClockConstruction ==
    (clock_call # None /\ clock_call[1].op = "new") =>
        LET sc == clock_call[1].slot_counter
            t == clock_call[1].time
        IN  IF sc % 16384 >= 12000 THEN slot_clock = None
            ELSE /\ slot_clock # None
                 /\ get(slot_clock[1], sc) = t
                 /\ \A probe \in ProbeCounters :
                       IndexOf(probe) # IndexOf(sc) =>
                           get(slot_clock[1], probe) =
                               t - NOMINAL_DURATION_PER_SLOT
                                     * ((AbsoluteSlot(sc) - AbsoluteSlot(probe)) % 48000)

\* a clock made at slot 1000 (index 1): slot 0 is 1000 slots earlier, the
\* last slot of the last epoch 1001 slots earlier
SlotClockConstructionWitness ==
    /\ clock_call # None
    /\ clock_call[1] = [op |-> "new", slot_counter |-> 1000, time |-> 300000,
                        before |-> None]
    /\ slot_clock # None
    /\ get(slot_clock[1], 0) = 295000
    /\ get(slot_clock[1], 61151) = 294995

\* the indices cyclically strictly between last and index, each with its
\* number of steps back from index
StepsBack(last, index) == 1 .. (((index - last) % 48) - 1)

\* C30: slot-clock update into a new index.  set(sc, t) with t >= last_t and
\* index(sc) # last_index sets times[index] = t - offset, gives each index
\* cyclically strictly between last_index and index the time 5 s earlier for
\* each step back from index, leaves times[last_index] and every other index
\* unchanged, and records (last_index, last_t) = (index, t).
SlotClockUpdate ==
    (/\ clock_call # None /\ clock_call[1].op = "set"
     /\ index_and_offset(clock_call[1].slot_counter).tag = "Ok"
     /\ clock_call[1].time >= clock_call[1].before[1].last_time
     /\ IndexOf(clock_call[1].slot_counter) # clock_call[1].before[1].last_index) =>
        LET old == clock_call[1].before[1]
            new == slot_clock[1]
            t == clock_call[1].time
            index == IndexOf(clock_call[1].slot_counter)
            index_time == t - OffsetOf(clock_call[1].slot_counter)
            steps == StepsBack(old.last_index, index)
            walked == {(index + 48 - m) % 48 : m \in steps}
        IN  /\ new.times[index] = index_time
            /\ \A m \in steps :
                  new.times[(index + 48 - m) % 48] =
                      index_time - m * NOMINAL_DURATION_PER_INDEX
            /\ \A i \in (0..47) \ (walked \cup {index}) : new.times[i] = old.times[i]
            /\ old.last_index \notin walked
            /\ new.last_index = index
            /\ new.last_time = t

\* a clock made at slot 0 (index 0) and set 5 ms later at the first slot of
\* epoch 1 (index 12): indices 1 to 11 are walked, index 0 is kept
SlotClockUpdateWitness ==
    /\ clock_call # None
    /\ clock_call[1].op = "set"
    /\ clock_call[1].slot_counter = 16384
    /\ clock_call[1].time = 300005
    /\ clock_call[1].before # None
    /\ clock_call[1].before[1].last_index = 0
    /\ clock_call[1].before[1].last_time = 300000
    /\ slot_clock[1].times[12] = 300005
    /\ slot_clock[1].times[11] = 295005
    /\ slot_clock[1].times[1] = 245005
    /\ slot_clock[1].times[0] = 300000
    /\ slot_clock[1].times[13] = clock_call[1].before[1].times[13]


\* the last call was SlotClock::set on a clock, with a valid slot counter
\* when valid is TRUE and an invalid one otherwise
SetCalled(valid) ==
    /\ clock_call # None
    /\ clock_call[1].op = "set"
    /\ (index_and_offset(clock_call[1].slot_counter).tag = "Ok") = valid

\* C31: slot-clock same-index update.  set(sc, t) with t >= last_t and
\* index(sc) = last_index leaves the 48 times unchanged and updates only
\* last_t; set with an invalid slot number leaves the whole clock unchanged.
SlotClockSameIndex ==
    /\ (/\ SetCalled(TRUE)
        /\ clock_call[1].time >= clock_call[1].before[1].last_time
        /\ IndexOf(clock_call[1].slot_counter) = clock_call[1].before[1].last_index) =>
           /\ slot_clock[1].times = clock_call[1].before[1].times
           /\ slot_clock[1].last_index = clock_call[1].before[1].last_index
           /\ slot_clock[1].last_time = clock_call[1].time
    /\ SetCalled(FALSE) => slot_clock = clock_call[1].before

\* a clock made at slot 0 and set four minutes later at slot 999, in the
\* same index
SlotClockSameIndexWitness ==
    /\ SetCalled(TRUE)
    /\ clock_call[1].slot_counter = 999
    /\ clock_call[1].time = 540000
    /\ clock_call[1].before[1].last_index = 0
    /\ clock_call[1].before[1].last_time = 300000
    /\ slot_clock[1].last_time = 540000
    /\ slot_clock[1].times[0] = 300000

SlotClockRegression ==
    (SetCalled(TRUE) /\ clock_call[1].time < clock_call[1].before[1].last_time) =>
        LET i == IndexOf(clock_call[1].slot_counter)
            index_time == clock_call[1].time - OffsetOf(clock_call[1].slot_counter)
        IN  /\ \A j \in 0..47 :
                  slot_clock[1].times[j] =
                      index_time - NOMINAL_DURATION_PER_INDEX * ((i - j) % 48)
            /\ slot_clock[1].last_index = i
            /\ slot_clock[1].last_time = clock_call[1].time

\* a clock at index 12 set 5 s earlier at slot 1000: rebuilt about index 1,
\* index 12 now 37 indices back
SlotClockRegressionWitness ==
    /\ SetCalled(TRUE)
    /\ clock_call[1].slot_counter = 1000
    /\ clock_call[1].time = 295000
    /\ clock_call[1].before[1].last_index = 12
    /\ clock_call[1].before[1].last_time = 300000
    /\ slot_clock[1].times[1] = 295000
    /\ slot_clock[1].times[12] = 295000 - 37 * 5000
    /\ slot_clock[1].last_index = 1

---------------------------------------------------------------------------
(* Properties of the observer's clocks                                     *)

\* the last call on the observer's clocks was the one named
ClockCalled(op) == clock_call # None /\ clock_call[1].op = op

\* C34: power-report gating.  A power_report for a gateway without a slot
\* clock, or with a slot number of 12000 or more, prints no event; one for a
\* gateway with a slot clock and a valid slot counter prints exactly one
\* event, stamped with the time its slot clock gives for the slot counter.
\* No power_report changes the observer's state.
PowerReportGating ==
    ClockCalled("power_report") =>
        LET gateway_id == clock_call[1].gateway_id
            slot_counter == clock_call[1].slot_counter
            before == clock_call[1].before
        IN  /\ captured_slot_counters = before.captured_slot_counters
            /\ slot_clocks = before.slot_clocks
            /\ Observer = clock_call[1].observer
            /\ IF \/ ~Has(before.slot_clocks, gateway_id)
                  \/ slot_counter % 16384 >= 12000
               THEN events = before.events
               ELSE /\ Len(events) = Len(before.events) + 1
                    /\ SubSeq(events, 1, Len(before.events)) = before.events
                    /\ events[Len(events)].gateway.id = gateway_id
                    /\ events[Len(events)].timestamp =
                          get(before.slot_clocks[gateway_id], slot_counter)

\* gateway 0x1201 captured at 305 s and observed at slot 0, then a report of
\* slot 1000, 47 indices back in its clock
PowerReportGatingWitness ==
    /\ ClockCalled("power_report")
    /\ clock_call[1].gateway_id = 4609
    /\ clock_call[1].slot_counter = 1000
    /\ Has(slot_clocks, 4609)
    /\ slot_clocks[4609].last_time = 305000
    /\ slot_clocks[4609].last_index = 0
    /\ Len(events) = 1
    /\ events[1].timestamp = 70000

\* C39: capture/observe pairing.  A gateway has a capture time exactly when
\* it was captured since it was last observed.  An observation for g
\* without one leaves every slot clock unchanged; one with it makes or
\* updates the clock of g with the time captured, or leaves it unchanged for
\* an invalid slot number, and in each case removes the capture time of g;
\* the capture times and the clocks of the other gateways stay as they were.
CaptureObservePairing ==
    /\ DOMAIN captured_slot_counters = capture_pending
    /\ ClockCalled("observed") =>
        LET gateway_id == clock_call[1].gateway_id
            slot_counter == clock_call[1].slot_counter
            before == clock_call[1].before
            valid == slot_counter % 16384 < 12000
        IN  /\ ~Has(captured_slot_counters, gateway_id)
            /\ \A h \in ClockGateways \ {gateway_id} :
                  /\ Has(captured_slot_counters, h) = Has(before.captured_slot_counters, h)
                  /\ Has(captured_slot_counters, h) =>
                        captured_slot_counters[h] = before.captured_slot_counters[h]
                  /\ Has(slot_clocks, h) = Has(before.slot_clocks, h)
                  /\ Has(slot_clocks, h) => slot_clocks[h] = before.slot_clocks[h]
            /\ events = before.events
            /\ (gateway_id \notin clock_call[1].pending \/ ~valid) =>
                  slot_clocks = before.slot_clocks
            /\ (gateway_id \in clock_call[1].pending /\ valid) =>
                  /\ Has(slot_clocks, gateway_id)
                  /\ slot_clocks[gateway_id].last_time =
                        before.captured_slot_counters[gateway_id]
                  /\ slot_clocks[gateway_id].last_index = IndexOf(slot_counter)

\* gateway 0x1201 captured once and observed twice, while 0x1202 is
\* captured: the second observation finds no capture time and leaves the
\* clock of the first, and the capture of 0x1202 stays
CaptureObservePairingWitness ==
    /\ ClockCalled("observed")
    /\ observations = 4
    /\ clock_call[1].gateway_id = 4609
    /\ clock_call[1].slot_counter = 1000
    /\ clock_call[1].pending = {4610}
    /\ capture_pending = {4610}
    /\ Has(slot_clocks, 4609)
    /\ slot_clocks[4609].last_index = 0
    /\ slot_clocks = clock_call[1].before.slot_clocks
    /\ Has(captured_slot_counters, 4610)

---------------------------------------------------------------------------
(* Properties of slots_since                                               *)

\* C35: slots_since.  For slot counters a and p with valid slot numbers
\* a.slots_since(p) is r with 1 <= r <= 48000 and r congruent to
\* abs(a) - abs(p) modulo 48000, and no operation exceeds 16 bits; with an
\* invalid slot number in either it is an error.
SlotsSince ==
    (codec = "slots_since" /\ encoded # None) =>
        LET a == given[1]
            p == given[2]
            r == encoded[1]
        IN  IF a % 16384 >= 12000 \/ p % 16384 >= 12000 THEN r.tag = "Err"
            ELSE /\ r.tag = "Ok"
                 /\ ~r.exceeded
                 /\ 1 <= r.value /\ r.value <= 48000
                 /\ (r.value - (AbsoluteSlot(a) - AbsoluteSlot(p))) % 48000 = 0

\* the first slot of epoch 0 is one slot after the last slot of epoch C, and
\* a slot counter is 48000 slots after itself
SlotsSinceWitness ==
    /\ codec = "slots_since"
    /\ encoded # None
    /\ \/ given = <<0, 61151>> /\ encoded[1].tag = "Ok" /\ encoded[1].value = 1
       \/ given = <<256, 256>> /\ encoded[1].tag = "Ok" /\ encoded[1].value = 48000

---------------------------------------------------------------------------
(* Properties of the link receiver: resynchronisation and accounting       *)

\* C36: link resynchronisation.  After any byte sequence, when two or more
\* encoded valid frames have been fed one after the other, each with its
\* preamble, the last frame delivered to the sink is the last of them,
\* unchanged: garbage costs at most the first frame that follows it.
LinkResynchronisation ==
    (pending = <<>> /\ Len(fed_run) >= 2) =>
        /\ sink # <<>>
        /\ sink[Len(sink)] = fed_run[Len(fed_run)]
        /\ state = "Idle"
        /\ buffer = <<>>

\* 7E 07 leaves the receiver in a frame; the frame fed next is lost as noise
\* and the one after it is delivered
LinkResynchronisationWitness ==
    /\ pending = <<>>
    /\ fed_run = <<SampleFrame, LongestFrame>>
    /\ calls = 4
    /\ counters.noise >= 1
    /\ counters.frames = 1
    /\ sink = <<LongestFrame>>

\* C37: link buffer hygiene.  The body buffer is empty unless the state is
\* Frame or FrameEscape, so a frame started from another state holds no byte
\* of an earlier frame, giant or noise.
LinkBufferHygiene == state \notin {"Frame", "FrameEscape"} => buffer = <<>>

\* a body that filled the buffer became a giant, and the frame started by
\* 7E 07 inside the giant holds only its own byte
LinkBufferHygieneWitness ==
    /\ state = "Frame"
    /\ counters.giants = 1
    /\ terminators = [frame |-> 0, giant |-> 0]
    /\ buffer = <<0>>
    /\ pending = <<>>

\* C38: frame accounting.  Each terminator 0x08 received in FrameEscape adds
\* one to exactly one of frames, runts (buffer shorter than 6 bytes) and
\* checksums (CRC mismatch), and delivers a frame exactly when it adds to
\* frames; so frames + runts + checksums is the number of such terminators
\* and the sink holds as many frames as frames counts.
FrameAccounting ==
    /\ [](/\ counters.frames + counters.runts + counters.checksums = terminators.frame
          /\ Len(sink) = counters.frames)
    /\ [][terminators.frame' # terminators.frame =>
            LET n == Len(buffer)
                runt == n < 6
                mismatch == ~runt /\ from_le_bytes(buffer[n - 1], buffer[n])
                                        # crc(SubSeq(buffer, 1, n - 2))
            IN  /\ counters.runts' = counters.runts + (IF runt THEN 1 ELSE 0)
                /\ counters.checksums' = counters.checksums + (IF mismatch THEN 1 ELSE 0)
                /\ counters.frames' = counters.frames
                                        + (IF runt \/ mismatch THEN 0 ELSE 1)
                /\ counters.giants' = counters.giants
                /\ counters.noise' = counters.noise
                /\ Len(sink') = Len(sink) + (IF runt \/ mismatch THEN 0 ELSE 1)]_vars

\* a frame delivered and a runt counted, each at its terminator
FrameAccountingWitness ==
    /\ counters.frames = 1
    /\ counters.runts = 1
    /\ counters.checksums = 0
    /\ terminators.frame = 2
    /\ Len(sink) = 1

---------------------------------------------------------------------------
(* Properties of the observer: enumeration end without start               *)

\* C40: enumeration end without start.  enumeration_ended while no
\* enumeration is active leaves the persistent identities, versions and node
\* tables as they were and leaves no transient state.
EnumerationEndWithoutStart ==
    (last_call = "enumeration_ended" /\ before_call.enumeration_state = None) =>
        /\ persistent_state.gateway_identities = before_call.gateway_identities
        /\ persistent_state.gateway_versions = before_call.gateway_versions
        /\ persistent_state.gateway_node_tables = before_node_tables
        /\ enumeration_state = None

\* an end without a start, with an identity and a version held
EnumerationEndWithoutStartWitness ==
    /\ last_call = "enumeration_ended"
    /\ before_call.enumeration_state = None
    /\ Has(persistent_state.gateway_identities, 4609)
    /\ Has(persistent_state.gateway_versions, 4609)

=============================================================================
